---- MODULE Spec2Model ----
(***************************************************************************)
(* Thirst core of ARCRealisticSurvivalPlugin: the per-second tick, the     *)
(* threshold damage counter, the in-memory level store, the player_thirst  *)
(* table and the settings dictionary.                                     *)
(*                                                                         *)
(* Levels and settings are Python floats, computed with the rounding of    *)
(* IEEE 754 doubles: Dec(1000) is the level 100.0, Dec(1) the decay 0.1    *)
(* and FloatAdd(Dec(1000), 0 - Dec(1)) the level after one decay, 99.9.    *)
(***************************************************************************)
EXTENDS Integers, Sequences, FiniteSets, TLC

\* ---------------------------------------------------------------- bounds
NumPlayers == 2
MaxTicks == 11
LifeTicks == 2
TimerTicks == 2
MaxEvents == 3
MaxReloads == 1
DetachTicks == 10
StationaryTicks == 50
MovingTicks == 25

Players == 1..NumPlayers

\* ------------------------------------------------------ program constants
CheckInterval == 10
FullHealth == 20

KeyDecay == "thirst_decay_per_second"
KeyMove == "thirst_moving_multiplier"
KeyInitial == "thirst_initial"
KeyLanguage == "language"
NoneVal == "<None>"
NoTask == 0
HostTask == 0 - 1

VARIABLES
    setting_dict,               \* SettingManager.setting_dict
    setting_file,               \* the lines of the settings file
    thirst_decay_per_second,
    thirst_moving_multiplier,
    thirst_initial,
    player_xuid_to_thirst,      \* dict xuid -> level
    player_moving_flags,        \* the xuids whose flag is set
    thirst_task,                \* NoTask, HostTask or the index of an _ArcTimer
    thirst_damage_timer,
    player_thirst,              \* table player_thirst: xuid -> level
    thirst_items,               \* table thirst_items: item_id -> thirst_delta
    db_open,                    \* the connection of db_manager
    online_players,             \* server.online_players, in order
    health,                     \* player.health
    enabled,                    \* between on_enable and on_disable
    has_scheduler,              \* server.scheduler offers run_task
    host_tasks,                 \* repeating tasks the host scheduler holds
    arc,                        \* the _ArcTimer objects created so far
    main_pc,                    \* position of the host thread in a handler
    main_locals,                \* local variables of that handler
    ticks,                      \* firings of the tick driver so far
    events,                     \* events delivered and faults met so far
    since_damage,               \* ticks since the last damage of a player
    damage_gap,                 \* smallest distance between two damages
    loaded_cfgs,                \* the configurations loaded so far
    window_moves,               \* movement signals since the last tick fired
    lastOp                      \* the operation that ran last

cfgVars == <<setting_dict, setting_file, thirst_decay_per_second, thirst_moving_multiplier,
             thirst_initial>>
memVars == <<player_xuid_to_thirst, player_moving_flags, thirst_damage_timer>>
dbVars == <<player_thirst, thirst_items, db_open>>
hostVars == <<online_players, health>>
taskVars == <<thirst_task, host_tasks, has_scheduler>>
threadVars == <<arc, main_pc, main_locals>>
countVars == <<ticks, events>>
damageVars == <<since_damage, damage_gap>>
reloadVars == <<loaded_cfgs>>
windowVars == <<window_moves>>

vars == <<setting_dict, setting_file, thirst_decay_per_second,
          thirst_moving_multiplier, thirst_initial, player_xuid_to_thirst, player_moving_flags,
          thirst_task, thirst_damage_timer, player_thirst, thirst_items,
          db_open, online_players, health, enabled, has_scheduler,
          host_tasks, arc, main_pc, main_locals, ticks, events, since_damage,
          damage_gap, loaded_cfgs, window_moves, lastOp>>

\* ---------------------------------------------------------------- helpers
Max(a, b) == IF a >= b THEN a ELSE b
Min(a, b) == IF a <= b THEN a ELSE b

EmptyMap == [x \in {} |-> 0]

\* dict.get(k, d)
Get(m, k, d) == IF k \in DOMAIN m THEN m[k] ELSE d

\* m[k] = v
Put(m, k, v) == [x \in (DOMAIN m) \cup {k} |-> IF x = k THEN v ELSE m[x]]

SeqToSet(s) == {s[i] : i \in 1..Len(s)}

RemoveFromSeq(s, x) == SelectSeq(s, LAMBDA y : y # x)

\* ----------------------------------------------------- Python floats
\* A float near t tenths is the real number t/10 + r * 2^-56/5 with a
\* small whole r, and the model holds it as the integer t * Tenth + r.  The
\* integers are ordered as the floats are and sums of integers are sums of
\* the reals, so that only the rounding of a result to the nearest double
\* is left to compute.
Tenth == 131072

\* the tenths nearest to x, for x >= 0
TenthsOf(x) == (x + Tenth \div 2) \div Tenth

\* 2^n modulo 5
Pow2Mod5(n) ==
    CASE n % 4 = 0 -> 1
      [] n % 4 = 1 -> 2
      [] n % 4 = 2 -> 4
      [] n % 4 = 3 -> 3

\* the real number T/10 + r0 units lies below b/10
Below(T, r0, b) == T < b \/ (T = b /\ r0 < 0)

\* The distance of two neighbouring doubles around T/10 + r0 units, T >= 1,
\* is 5 * 2^j units: 2^-56 below 0.125 (j = 0), 2^-55 below 0.25 (1),
\* 2^-54 below 0.5 (2), 2^-53 below 1.0 (3), and one more for every
\* doubling: below 2.0 (4), 4.0 (5), 8.0 (6), 16.0 (7), 32.0 (8),
\* 64.0 (9), 128.0 (10), 256.0 (11), 512.0 (12), 1024.0 (13), 2048.0 (14).
GridExp(T, r0) ==
    IF Below(T, r0, 160)
    THEN IF Below(T, r0, 10)
         THEN IF T <= 1 THEN 0
              ELSE IF T <= 2 THEN 1
              ELSE IF Below(T, r0, 5) THEN 2 ELSE 3
         ELSE IF Below(T, r0, 40)
              THEN IF Below(T, r0, 20) THEN 4 ELSE 5
              ELSE IF Below(T, r0, 80) THEN 6 ELSE 7
    ELSE IF Below(T, r0, 2560)
         THEN IF Below(T, r0, 640)
              THEN IF Below(T, r0, 320) THEN 8 ELSE 9
              ELSE IF Below(T, r0, 1280) THEN 10 ELSE 11
         ELSE IF Below(T, r0, 5120) THEN 12
              ELSE IF Below(T, r0, 10240) THEN 13 ELSE 14

\* T/10 + r0 units modulo 5 * 2^j units: one tenth is 2^55 units, and
\* 2^55 modulo 5 * 2^j is 2^j * (2^(55 - j) modulo 5)
GridPos(T, r0, j) == (T * (2^j * Pow2Mod5(55 - j)) + r0) % (5 * 2^j)

\* round to nearest, ties to even, of x >= 0 between two doubles that are
\* G units apart; x lies P2 units above a double that is even
RoundAt(x, G, P2) ==
    IF 2 * (P2 % G) < G \/ (2 * P2 = G) THEN x - (P2 % G)
    ELSE x + (G - (P2 % G))

\* j is computed once
RoundIn(x, T, r0) ==
    CHOOSE y \in {RoundAt(x, 5 * 2^j, GridPos(T, r0, j + 1)) :
                    j \in {GridExp(T, r0)}} : TRUE

\* x >= 0; a real number below 0.05 that is the sum of two doubles is a
\* double; T is computed once
RoundPos(x) ==
    CHOOSE y \in {IF T = 0 THEN x ELSE RoundIn(x, T, x - T * Tenth) :
                    T \in {TenthsOf(x)}} : TRUE

\* the double nearest to the real number x; v: the value of x, taken once
Round(x) ==
    CHOOSE y \in {IF v < 0 THEN 0 - RoundPos(0 - v) ELSE RoundPos(v) :
                    v \in {x}} : TRUE

\* the float of the decimal literal of t tenths: Dec(1) is 0.1
Dec(t) == Round(t * Tenth)

\* a + b in floats
FloatAdd(a, b) == Round(a + b)

\* a * b in floats, for a factor b that is a whole number, or a multiple
\* of 0.5 when a is a whole number
FloatMul(a, b) ==
    LET n == TenthsOf(IF b < 0 THEN 0 - b ELSE b)
        m == IF a < 0 THEN 0 - a ELSE a
        p == IF n % 10 = 0 THEN m * (n \div 10) ELSE (m * (n \div 5)) \div 2
    IN  Round(IF (a < 0) # (b < 0) THEN 0 - p ELSE p)

\* the limits of _clamp_thirst, the floor of the multiplier and the values
\* of __init__
MinThirst == Dec(0)
MaxThirst == Dec(1000)
MinMultiplier == Dec(10)
DefaultDecay == Dec(1)
DefaultMultiplier == Dec(20)
DefaultInitial == Dec(1000)

\* math.floor of a level that is not negative
Floor(v) == v \div (10 * Tenth)

\* float(): the strings the model uses and their values in tenths
FloatTable ==
    ("0" :> 0) @@ ("0.0" :> 0) @@ ("0.1" :> 1) @@ ("2.0" :> 20) @@
    ("1.0" :> 10) @@ ("0.5" :> 5) @@ ("50.0" :> 500) @@ ("100.0" :> 1000) @@
    ("150.0" :> 1500) @@ ("-10.0" :> (0 - 100)) @@ ("25.0" :> 250)

\* str.strip() on the strings the model uses
StripTable ==
    (" 25.0 " :> "25.0") @@ ("25.0 " :> "25.0") @@ ("  " :> "") @@
    (" language" :> "language")

Strip(s) == IF s \in DOMAIN StripTable THEN StripTable[s] ELSE s

\* float(s) ignores the white space around the number
CanParse(s) == Strip(s) \in DOMAIN FloatTable
ParseFloat(s) == Dec(FloatTable[Strip(s)])

\* str() of a float
StrOfFloat(v) ==
    CASE v = Dec(0) -> "0.0"
      [] v = Dec(1) -> "0.1"
      [] v = Dec(5) -> "0.5"
      [] v = Dec(10) -> "1.0"
      [] v = Dec(20) -> "2.0"
      [] v = Dec(250) -> "25.0"
      [] v = Dec(500) -> "50.0"
      [] v = Dec(1000) -> "100.0"
      [] v = Dec(1500) -> "150.0"
      [] v = Dec(0 - 100) -> "-10.0"

\* ------------------------------------------------------- SettingManager
\* the dictionary after GetSetting(key): a missing key is created empty
GetSettingDict(d, key) == IF key \in DOMAIN d THEN d ELSE Put(d, key, "")

\* the value GetSetting(key) returns
GetSetting(d, key) ==
    IF key \notin DOMAIN d \/ d[key] = "" THEN NoneVal ELSE d[key]

SetSetting(d, key, value) == Put(d, key, value)

\* The settings file is the sequence of its lines, the text between two
\* line breaks: <<k, v>> is the line k=v, <<t>> a line without "=", <<>>
\* an empty line. The file SetSetting writes ends with a line break, so
\* its last line is empty.
EmptyFile == << <<>> >>

\* the loop of _load_setting_file over the lines, on top of d
RECURSIVE ParseLines(_, _)
ParseLines(lines, d) ==
    IF lines = <<>> THEN d
    ELSE ParseLines(Tail(lines),
                    IF Len(Head(lines)) = 2
                    THEN Put(d, Strip(Head(lines)[1]), Strip(Head(lines)[2]))
                    ELSE d)

\* _load_setting_file: the dictionary read from the file
LoadSettingFile(file) == ParseLines(file, EmptyMap)

\* the file after GetSetting(key): a missing key is appended as "\nkey="
GetSettingFile(file, d, key) ==
    IF key \in DOMAIN d THEN file ELSE Append(file, <<key, "">>)

\* the keys of the lines of a file, each once, in the order of the file
RECURSIVE FileKeys(_, _)
FileKeys(lines, seen) ==
    IF lines = <<>> THEN seen
    ELSE FileKeys(Tail(lines),
                  IF /\ Len(Head(lines)) = 2
                     /\ Strip(Head(lines)[1]) \notin SeqToSet(seen)
                  THEN Append(seen, Strip(Head(lines)[1]))
                  ELSE seen)

\* the order in which keys that no line holds yet enter the dictionary
KeyOrder == <<KeyDecay, KeyMove, KeyInitial, KeyLanguage>>

\* the items of the dictionary d in insertion order: the dictionary was
\* read from the file line by line and every later key was added at its
\* end, like its line
DictKeys(file, d) ==
    LET old == SelectSeq(FileKeys(file, <<>>), LAMBDA k : k \in DOMAIN d)
        new == SelectSeq(KeyOrder,
                         LAMBDA k : k \in DOMAIN d /\ k \notin SeqToSet(old))
    IN  old \o new

\* the file SetSetting writes: one line "k=v\n" for every item of d
WriteFile(file, d) ==
    LET keys == DictKeys(file, d)
    IN  [i \in 1..Len(keys) |-> <<keys[i], d[keys[i]]>>] \o EmptyFile

\* the file after _load_thirst_settings took the dictionary from d0 to
\* d1: a GetSetting that adds a key returns None and a SetSetting
\* follows, so the file was rewritten whenever the dictionary changed
FileAfterLoad(file, d0, d1) == IF d1 = d0 THEN file ELSE WriteFile(file, d1)


\* ------------------------------------------------- _load_thirst_settings
\* A configuration is [dict, decay, move, initial, raised].
Cfg(d, dec, mv, ini) ==
    [dict |-> d, decay |-> dec, move |-> mv, initial |-> ini, raised |-> FALSE]

CurrentCfg ==
    Cfg(setting_dict, thirst_decay_per_second, thirst_moving_multiplier,
        thirst_initial)

LoadDecay(c) ==
    LET val == GetSetting(c.dict, KeyDecay)
        d1 == GetSettingDict(c.dict, KeyDecay)
    IN  IF val = NoneVal \/ val = ""
        THEN [c EXCEPT !.dict = SetSetting(d1, KeyDecay, "0.1"),
                       !.decay = DefaultDecay]
        ELSE IF ~CanParse(val)
        THEN [c EXCEPT !.dict = d1, !.raised = TRUE]
        ELSE [c EXCEPT !.dict = d1, !.decay = Max(Dec(0), ParseFloat(val))]

\* the multiplier loaded without max(1.0, ...)
LoadMoveNoClamp(c) ==
    LET val == GetSetting(c.dict, KeyMove)
        d1 == GetSettingDict(c.dict, KeyMove)
    IN  IF val = NoneVal \/ val = ""
        THEN [c EXCEPT !.dict = SetSetting(d1, KeyMove, "2.0"),
                       !.move = DefaultMultiplier]
        ELSE IF ~CanParse(val)
        THEN [c EXCEPT !.dict = d1, !.raised = TRUE]
        ELSE [c EXCEPT !.dict = d1, !.move = ParseFloat(val)]

LoadMove(c) ==
    LET val == GetSetting(c.dict, KeyMove)
        d1 == GetSettingDict(c.dict, KeyMove)
    IN  IF val = NoneVal \/ val = ""
        THEN [c EXCEPT !.dict = SetSetting(d1, KeyMove, "2.0"),
                       !.move = DefaultMultiplier]
        ELSE IF ~CanParse(val)
        THEN [c EXCEPT !.dict = d1, !.raised = TRUE]
        ELSE [c EXCEPT !.dict = d1, !.move = Max(MinMultiplier, ParseFloat(val))]

LoadInitial(c) ==
    LET val == GetSetting(c.dict, KeyInitial)
        d1 == GetSettingDict(c.dict, KeyInitial)
    IN  IF val = NoneVal \/ val = ""
        THEN [c EXCEPT !.dict = SetSetting(d1, KeyInitial, "100.0"),
                       !.initial = DefaultInitial]
        ELSE IF ~CanParse(val)
        THEN [c EXCEPT !.dict = d1, !.raised = TRUE]
        ELSE [c EXCEPT !.dict = d1, !.initial = ParseFloat(val)]

\* the three settings in order; a float() that raises ends the function
LoadThirstSettings(c) ==
    LET a == LoadDecay([c EXCEPT !.raised = FALSE])
    IN  IF a.raised THEN a
        ELSE LET b == LoadMove(a)
             IN  IF b.raised THEN b ELSE LoadInitial(b)

\* ------------------------------------------------------ level arithmetic
\* the clamp without its upper limit
ClampThirstNoCeiling(value) == Max(MinThirst, value)

\* _clamp_thirst; v: the value of the argument, taken once
ClampThirst(value) ==
    CHOOSE y \in {Max(MinThirst, Min(MaxThirst, v)) : v \in {value}} : TRUE

\* the store after _apply_thirst_delta(player, delta); new_val is
\* computed once
ApplyThirstDelta(thirst, x, delta, initial) ==
    CHOOSE m \in
        {Put(thirst, x, new_val) :
           new_val \in {ClampThirst(FloatAdd(Get(thirst, x, initial),
                                             delta))}} : TRUE

\* _apply_thirst_delta calls player.send_tip when the floor changes
TipSent(thirst, x, delta, initial) ==
    LET current == Get(thirst, x, initial)
        new_val == ClampThirst(FloatAdd(current, delta))
    IN  Floor(new_val) # Floor(current)

\* a moving player loses 0.1 at least
TickDecayMovingMinimum(base_decay, moving_flag, multiplier) ==
    IF ~moving_flag THEN base_decay
    ELSE Max(Dec(1), FloatMul(base_decay, multiplier))

\* the decay of one tick
TickDecay(base_decay, moving_flag, multiplier) ==
    IF ~moving_flag THEN base_decay ELSE FloatMul(base_decay, multiplier)

\* ------------------------------------------------------- DatabaseManager
\* The tables are functions from the key to the stored level.  A closed
\* connection answers no query and accepts no write.
DbHasRow(table, open, x) == open /\ x \in DOMAIN table

\* insert(table, fields): refused for an existing primary key
DbInsert(table, open, x, level) ==
    IF open /\ x \notin DOMAIN table THEN Put(table, x, level) ELSE table

\* update(table, fields, "xuid=?", (xuid,))
DbUpdate(table, open, x, level) ==
    IF open /\ x \in DOMAIN table THEN [table EXCEPT ![x] = level] ELSE table

\* _persist_player_thirst without its insert branch
PersistUpdateOnly(table, open, thirst, x, initial) ==
    DbUpdate(table, open, x, Get(thirst, x, initial))

\* the table after _persist_player_thirst(player)
PersistPlayerThirst(table, open, thirst, x, initial) ==
    LET level == Get(thirst, x, initial)
    IN  IF ~DbHasRow(table, open, x)
        THEN DbInsert(table, open, x, level)
        ELSE DbUpdate(table, open, x, level)

\* _apply_thirst_damage reaches the instant_damage effect
DamageApplies(thirst, x, initial, hp) ==
    /\ hp[x] > 0
    /\ ~(Get(thirst, x, initial) > 0)


\* ------------------------------------------------------------ tick body
\* The state a tick body works on: the store, the flags, the table, the
\* players whose iteration reached its end, the players damaged, whether
\* an exception left the loop and in whose iteration, the players taken as
\* moving and the players _apply_thirst_damage was called for.
TickState(thirst, flags, table) ==
    [thirst |-> thirst, flags |-> flags, table |-> table,
     processed |-> {}, damaged |-> {}, aborted |-> FALSE, raiser |-> 0,
     moving |-> {}, called |-> {}, failed |-> {}, flagged |-> {}]

\* a failed write leaves _persist_player_thirst as an exception
SaveEscapesUncaught(ok) == ~ok

\* whether _persist_player_thirst raises: its body is one try/except that
\* logs, so it never does, whether the write went through (ok) or not
SaveEscapes(ok) == FALSE

\* the store after the decay of an iteration: _apply_thirst_delta is
\* called when the decay is positive
DecayedStore(thirst, x, decay, initial) ==
    IF decay > 0 THEN ApplyThirstDelta(thirst, x, 0 - decay, initial)
    ELSE thirst

\* the iteration of player x from its decay on; th1: the store after the
\* decay, seen: the store the threshold is evaluated on
TickPlayerAt(st, x, c, timer, writable, hp, tipFail, decay, th1, seen) ==
    LET moving_flag == x \in st.flags
        raised == /\ decay > 0
                  /\ x \in tipFail
                  /\ TipSent(st.thirst, x, 0 - decay, c.initial)
        call == /\ timer >= CheckInterval
                /\ Get(seen, x, c.initial) <= 0
        damage == call /\ DamageApplies(seen, x, c.initial, hp)
        \* x is taken as moving: the decay applied is the multiplied one
        mv == IF moving_flag /\ decay > 0 THEN st.moving \cup {x}
              ELSE st.moving
        \* x had its flag set when its iteration began
        fl == IF moving_flag THEN st.flagged \cup {x} ELSE st.flagged
    IN  IF raised
        THEN [st EXCEPT !.thirst = th1, !.aborted = TRUE, !.raiser = x,
                        !.moving = mv, !.flagged = fl]
        ELSE [st EXCEPT
                !.thirst = th1,
                !.moving = mv,
                !.flagged = fl,
                !.called = IF call THEN @ \cup {x} ELSE @,
                !.damaged = IF damage THEN @ \cup {x} ELSE @,
                !.flags = @ \ {x},
                !.table = PersistPlayerThirst(@, writable[x], th1, x,
                                              c.initial),
                !.failed = IF writable[x] THEN @ ELSE @ \cup {x},
                !.aborted = SaveEscapes(writable[x]),
                !.raiser = IF SaveEscapes(writable[x]) THEN x ELSE @,
                !.processed = IF SaveEscapes(writable[x]) THEN @
                              ELSE @ \cup {x}]

\* the iteration with the threshold evaluated on the level before the decay
TickPlayerCheckFirst(st, x, c, timer, writable, hp, tipFail) ==
    CHOOSE r \in
        {CHOOSE q \in {TickPlayerAt(st, x, c, timer, writable, hp, tipFail,
                                    decay, th1, st.thirst) :
                          th1 \in {DecayedStore(st.thirst, x, decay,
                                                c.initial)}} : TRUE :
           decay \in {TickDecay(c.decay, x \in st.flags, c.move)}} : TRUE

\* one iteration of the loop over server.online_players; writable[x]: the
\* connection is open and the write of the row of x goes through.  The
\* decay and the store after it (th1) are computed once; the threshold is
\* evaluated on the store after the decay.
TickPlayer(st, x, c, timer, writable, hp, tipFail) ==
    CHOOSE r \in
        {CHOOSE q \in {TickPlayerAt(st, x, c, timer, writable, hp, tipFail,
                                    decay, th1, th1) :
                          th1 \in {DecayedStore(st.thirst, x, decay,
                                                c.initial)}} : TRUE :
           decay \in {TickDecay(c.decay, x \in st.flags, c.move)}} : TRUE

RECURSIVE TickLoop(_, _, _, _, _, _, _)
TickLoop(st, ps, c, timer, writable, hp, tipFail) ==
    IF ps = <<>> \/ st.aborted THEN st
    ELSE \* nx: the state after the iteration of the first player
         CHOOSE r \in {TickLoop(nx, Tail(ps), c, timer, writable, hp,
                                 tipFail) :
                         nx \in {TickPlayer(st, Head(ps), c, timer, writable,
                                            hp, tipFail)}} : TRUE

\* the counter never reset
TimerAfterTickNoReset(timer, aborted) == timer

\* the counter after the tick body
TimerAfterTick(timer, aborted) ==
    IF ~aborted /\ timer >= CheckInterval THEN 0 ELSE timer

\* ---------------------------------------------------------- bookkeeping
\* The record of an operation; beyond its parameters: delta and prev, the
\* delta of a call of _apply_thirst_delta and of the call before it; ret,
\* the value returned or saved; again, a save that follows a save of the
\* same player; before, the level the player had; failed, the players
\* whose row a tick could not write; flagged, the players whose moving
\* flag a tick found set; key and value, the arguments of a call of
\* SetSetting, or the argument of a call of GetSetting and what it
\* returned; key is also the item_id of a consumption and value the three
\* inputs of a submitted form.
Op(kind, who, completed, processed, damaged, active) ==
    [kind |-> kind, who |-> who, completed |-> completed,
     processed |-> processed, damaged |-> damaged, active |-> active,
     moving |-> {}, called |-> {}, timer |-> 0,
     delta |-> 0, ret |-> 0, prev |-> 0, again |-> FALSE, before |-> 0,
     failed |-> {}, flagged |-> {}, key |-> "", value |-> ""]

\* a tick: also the players it took as moving, the players it called
\* _apply_thirst_damage for, the counter it worked with and the players
\* whose row could not be written
TickOp(st, timer, active) ==
    [Op("tick", st.raiser, ~st.aborted, st.processed, st.damaged, active)
        EXCEPT !.moving = st.moving, !.called = st.called, !.timer = timer,
               !.failed = st.failed, !.flagged = st.flagged]

\* the writes that go through: the connection is open and the write of
\* the row is not among those that fail
Writable(open, dbFail) == [x \in Players |-> open /\ x \notin dbFail]

\* no movement signal in the window
NoMoves == [x \in Players |-> 0]

SinceAfterTick(damaged) ==
    [x \in Players |-> IF x \in damaged THEN 0
                       ELSE Min(since_damage[x] + 1, CheckInterval)]

GapAfterTick(damaged) ==
    [x \in Players |->
        IF x \in damaged
        THEN Min(damage_gap[x], Min(since_damage[x] + 1, CheckInterval))
        ELSE damage_gap[x]]


\* ------------------------------------------------------------ inputs
\* contents of settings.yml at start
SettingFiles ==
    { EmptyMap,
      (KeyDecay :> "50.0") @@ (KeyMove :> "2.0") @@ (KeyInitial :> "150.0"),
      (KeyDecay :> "50.0") @@ (KeyMove :> "2.0") @@ (KeyInitial :> "0"),
      (KeyDecay :> "1.0") @@ (KeyMove :> "0.5") @@ (KeyInitial :> "100.0"),
      (KeyDecay :> "0") @@ (KeyMove :> "abc") @@ (KeyInitial :> "0") }

\* what an administrator types into the three inputs of the form
FormInputs ==
    { <<"50.0", "1.0", "0">>,
      <<"0", "2.0", "100.0">>,
      <<"-10.0", "2.0", "100.0">>,
      <<"50.0", "abc", "100.0">>,
      <<"50.0", "2.0", "150.0">> }

ItemKeys == {"minecraft:potion", "Minecraft:Potion", "minecraft:apple"}

\* str.lower()
Lower(s) == IF s = "Minecraft:Potion" THEN "minecraft:potion" ELSE s

\* what an administrator types into the first input of an item form
ItemInputs == {"50.0", "-10.0", "abc"}

\* the row a submitted item form saved for the potion
PotionStored == ("minecraft:potion" :> Dec(500))

\* the rows of thirst_items an earlier run of the server left: none, or
\* the one of the potion
StoredItems == {EmptyMap, PotionStored}

Triple(c) == <<c.decay, c.move, c.initial>>

Online == SeqToSet(online_players)

\* ---------------------------------------------------- _start_thirst_timer
\* the host tasks after thirst_task.cancel()
CancelHost(task, n) == IF task = HostTask THEN n - 1 ELSE n

\* the local variables of a handler of the host thread: the player of the
\* event, the handler, the row a query found (exists) and its level (row),
\* current and thirst_delta of _apply_thirst_delta, thirst of
\* _persist_player_thirst, the players the loop of on_disable has still
\* to save (ps); all empty outside a handler
NoLocals ==
    [player |-> 0, handler |-> "", key |-> "", exists |-> FALSE, row |-> 0,
     current |-> 0, thirst_delta |-> 0, thirst |-> 0, ps |-> <<>>]

\* a new _ArcTimer: __init__ arms the first timer.  seen: the settings the
\* tick in flight has used, as <<1, decay>>, <<2, multiplier>>,
\* <<3, initial>>; cancelled: cancel() has returned; late: the last timer
\* expired after that; hit: the player the iteration damaged; raised: the
\* callback raised in the last firing
NewArcTimer ==
    [stop |-> FALSE, armed |-> TRUE, pc |-> "idle", ps |-> <<>>,
     base_decay |-> 0, moving_flag |-> FALSE, decay |-> 0, cur |-> 0,
     thirst |-> 0, exists |-> FALSE,
     seen |-> {}, cancelled |-> FALSE, late |-> FALSE, hit |-> 0,
     raised |-> FALSE]

\* ------------------------------------------------------------------ Init
\* the state after on_enable, with the rows player_thirst and thirst_items
\* hold from earlier runs of the server (_create_survival_tables creates
\* the tables empty), and after counter ticks with nobody online;
\* file: the items of settings.yml.  on_load asks for the language before
\* it loads the thirst settings.
InitAt(file, sched, table, items, counter) ==
    LET d0 == GetSettingDict(file, KeyLanguage)
        f0 == GetSettingFile(WriteFile(EmptyFile, file), file, KeyLanguage)
        c == LoadThirstSettings(
                Cfg(d0, DefaultDecay, DefaultMultiplier, DefaultInitial))
    IN  /\ setting_dict = c.dict
        /\ setting_file = FileAfterLoad(f0, d0, c.dict)
        /\ thirst_decay_per_second = c.decay
        /\ thirst_moving_multiplier = c.move
        /\ thirst_initial = c.initial
        /\ player_xuid_to_thirst = EmptyMap
        /\ player_moving_flags = {}
        /\ thirst_damage_timer = counter
        /\ player_thirst = table
        /\ thirst_items = items
        /\ db_open = TRUE
        /\ online_players = <<>>
        /\ health = [x \in Players |-> FullHealth]
        /\ enabled = TRUE
        /\ has_scheduler = sched
        /\ thirst_task = IF sched THEN HostTask ELSE 1
        /\ host_tasks = IF sched THEN 1 ELSE 0
        /\ arc = IF sched THEN <<>> ELSE <<NewArcTimer>>
        /\ main_pc = "idle"
        /\ main_locals = NoLocals
        /\ ticks = 0
        /\ events = 0
        /\ since_damage = [x \in Players |-> CheckInterval]
        /\ damage_gap = [x \in Players |-> CheckInterval]
        /\ loaded_cfgs = {Triple(c)}
        /\ window_moves = NoMoves
        /\ lastOp = Op("init", 0, TRUE, {}, {}, {})

\* the state after on_enable
InitFrom(file, sched, table, items) == InitAt(file, sched, table, items, 0)

\* the first start of the server: player_thirst and thirst_items are empty
InitWith(file, sched) == InitFrom(file, sched, EmptyMap, EmptyMap)

Init == \E file \in SettingFiles : InitWith(file, TRUE)


\* ------------------------------------------------------- event handlers
\* the host delivers one more event
Event == events < MaxEvents /\ events' = events + 1

\* _load_player_thirst taking the initial level whatever the table holds
LoadPlayerThirstIgnoreRow(thirst, table, open, x, initial) ==
    [thirst |-> Put(thirst, x, initial),
     table |-> DbInsert(table, open, x, initial)]

\* _load_player_thirst: the store and the table after it
LoadPlayerThirst(thirst, table, open, x, initial) ==
    IF ~DbHasRow(table, open, x)
    THEN [thirst |-> Put(thirst, x, initial),
          table |-> DbInsert(table, open, x, initial)]
    ELSE [thirst |-> Put(thirst, x, table[x]), table |-> table]

\* what the database does during a join: it works, query_one raises, or
\* insert raises
LoadFaults == {"none", "query", "insert"}

\* _load_player_thirst with a database that may raise: the function has
\* no try/except, so the exception leaves it where it is raised
LoadPlayerThirstWith(thirst, table, open, x, initial, fault) ==
    IF fault = "query"
    THEN [thirst |-> thirst, table |-> table, raised |-> TRUE]
    ELSE IF fault = "insert" /\ ~DbHasRow(table, open, x)
    THEN [thirst |-> Put(thirst, x, initial), table |-> table,
          raised |-> TRUE]
    ELSE LET r == LoadPlayerThirst(thirst, table, open, x, initial)
         IN  [thirst |-> r.thirst, table |-> r.table, raised |-> FALSE]

\* on_player_join, after the host has added the player; the handler has
\* no try/except either: an exception of the database reaches the host
OnPlayerJoinWith(x, fault) ==
    /\ enabled /\ main_pc = "idle"
    /\ Event
    /\ x \notin Online
    /\ LET r == LoadPlayerThirstWith(player_xuid_to_thirst, player_thirst,
                                     db_open, x, thirst_initial, fault)
       IN  /\ player_xuid_to_thirst' = r.thirst
           /\ player_thirst' = r.table
           /\ lastOp' = [Op("join", x, ~r.raised,
                            IF r.raised THEN {} ELSE {x}, {},
                            Online \cup {x})
                            EXCEPT !.ret = Get(r.thirst, x, 0)]
    /\ online_players' = Append(online_players, x)
    /\ health' = [health EXCEPT ![x] = FullHealth]
    /\ UNCHANGED <<cfgVars, player_moving_flags, thirst_damage_timer,
                   thirst_items, db_open, enabled, taskVars, threadVars,
                   ticks, damageVars, windowVars, reloadVars>>

\* the join with a database that works
OnPlayerJoin(x) == OnPlayerJoinWith(x, "none")

\* on_player_quit, before the host removes the player
OnPlayerQuit(x) ==
    /\ enabled /\ main_pc = "idle"
    /\ Event
    /\ x \in Online
    /\ player_thirst' = PersistPlayerThirst(player_thirst, db_open,
                            player_xuid_to_thirst, x, thirst_initial)
    /\ online_players' = RemoveFromSeq(online_players, x)
    /\ lastOp' = Op("quit", x, TRUE, {x}, {}, Online)
    /\ UNCHANGED <<cfgVars, memVars, thirst_items, db_open, health, enabled,
                   taskVars, threadVars, ticks, damageVars, windowVars, reloadVars>>

\* the body of on_player_move
PlayerMoved(x) ==
    /\ enabled /\ main_pc = "idle"
    /\ x \in Online
    /\ player_moving_flags' = player_moving_flags \cup {x}
    /\ window_moves' = [window_moves EXCEPT ![x] = @ + 1]
    /\ lastOp' = Op("move", x, TRUE, {}, {}, Online)
    /\ UNCHANGED <<cfgVars, player_xuid_to_thirst, thirst_damage_timer,
                   dbVars, hostVars, enabled, taskVars, threadVars,
                   ticks, damageVars, reloadVars>>

\* on_player_move, one of the events of a run
OnPlayerMove(x) == Event /\ PlayerMoved(x)

\* on_player_item_consume; tipFail: player.send_tip raises
OnPlayerItemConsume(x, key, tipFail) ==
    /\ enabled /\ main_pc = "idle"
    /\ Event
    /\ x \in Online
    /\ LET item_id == Lower(key)
           found == item_id \in DOMAIN thirst_items
           delta == thirst_items[item_id]
           th1 == ApplyThirstDelta(player_xuid_to_thirst, x, delta,
                                   thirst_initial)
           raised == /\ TipSent(player_xuid_to_thirst, x, delta,
                                thirst_initial)
                     /\ tipFail
       IN  IF ~found
           THEN /\ UNCHANGED <<player_xuid_to_thirst, player_thirst>>
                /\ lastOp' = [Op("consume", x, TRUE, {}, {}, Online)
                                EXCEPT !.key = item_id]
           ELSE IF raised
           THEN /\ player_xuid_to_thirst' = th1
                /\ UNCHANGED player_thirst
                /\ lastOp' = [Op("consume", x, FALSE, {}, {}, Online)
                                EXCEPT !.delta = delta, !.key = item_id,
                                       !.before = Get(player_xuid_to_thirst,
                                                      x, thirst_initial)]
           ELSE /\ player_xuid_to_thirst' = th1
                /\ player_thirst' = PersistPlayerThirst(player_thirst,
                                        db_open, th1, x, thirst_initial)
                /\ lastOp' = [Op("consume", x, TRUE, {x}, {}, Online)
                                EXCEPT !.delta = delta, !.key = item_id,
                                       !.before = Get(player_xuid_to_thirst,
                                                      x, thirst_initial)]
    /\ UNCHANGED <<cfgVars, player_moving_flags, thirst_damage_timer,
                   thirst_items, db_open, hostVars, enabled, taskVars,
                   threadVars, ticks, damageVars, windowVars, reloadVars>>

\* _save_thirst_item: the row of the lower-cased item id is updated, or
\* inserted when there is none; an exception of the database is logged
SaveThirstItem(items, open, key, thirst_delta) ==
    IF open THEN Put(items, Lower(key), thirst_delta) ELSE items

\* on_submit of _show_item_config_form for the item key of the inventory;
\* inp: the first input.  A float() that raises ends the handler.
ItemConfigSubmit(key, inp) ==
    /\ enabled /\ main_pc = "idle"
    /\ Event
    /\ thirst_items' = IF CanParse(inp)
                       THEN SaveThirstItem(thirst_items, db_open, key,
                                           ParseFloat(inp))
                       ELSE thirst_items
    /\ lastOp' = [Op("item", 0, CanParse(inp), {}, {}, Online)
                    EXCEPT !.key = Lower(key), !.value = inp]
    /\ UNCHANGED <<cfgVars, memVars, player_thirst, db_open, hostVars,
                   enabled, taskVars, threadVars, ticks, damageVars,
                   windowVars, reloadVars>>

\* on_submit of _edit_existing_item for the row of item_id, which the
\* form was opened for: the row is updated
EditItemSubmit(item_id, inp) ==
    /\ enabled /\ main_pc = "idle"
    /\ item_id \in DOMAIN thirst_items
    /\ Event
    /\ thirst_items' = IF CanParse(inp)
                       THEN DbUpdate(thirst_items, db_open, item_id,
                                     ParseFloat(inp))
                       ELSE thirst_items
    /\ lastOp' = [Op("edit", 0, CanParse(inp), {}, {}, Online)
                    EXCEPT !.key = item_id, !.value = inp]
    /\ UNCHANGED <<cfgVars, memVars, player_thirst, db_open, hostVars,
                   enabled, taskVars, threadVars, ticks, damageVars,
                   windowVars, reloadVars>>

\* the reset that keeps a level the store already holds
ResetThirstIfAbsent(thirst, x, initial) ==
    IF x \in DOMAIN thirst THEN thirst ELSE Put(thirst, x, initial)

\* self.player_xuid_to_thirst[xuid] = self.thirst_initial
ResetThirst(thirst, x, initial) == Put(thirst, x, initial)

\* on_actor_death, the host having set the health to 0;
\* before: the level the player had
OnActorDeath(x) ==
    /\ enabled /\ main_pc = "idle"
    /\ Event
    /\ x \in Online
    /\ health[x] > 0
    /\ health' = [health EXCEPT ![x] = 0]
    /\ LET th1 == ResetThirst(player_xuid_to_thirst, x, thirst_initial)
       IN  /\ player_xuid_to_thirst' = th1
           /\ player_thirst' = PersistPlayerThirst(player_thirst, db_open,
                                   th1, x, thirst_initial)
    /\ lastOp' = [Op("death", x, TRUE, {x}, {}, Online) EXCEPT
                    !.before = Get(player_xuid_to_thirst, x, thirst_initial)]
    /\ UNCHANGED <<cfgVars, player_moving_flags, thirst_damage_timer,
                   thirst_items, db_open, online_players, enabled, taskVars,
                   threadVars, ticks, damageVars, windowVars, reloadVars>>


\* ------------------------------------------- tick on the host scheduler
\* the player whose send_tip raises during a tick, if any: the first
\* exception ends the tick, so one player at most raises
TipFailures == {{}} \cup {{x} : x \in Online}

\* tick(), run by the host scheduler on the server thread;
\* tipFail: the players whose send_tip raises during this tick,
\* dbFail: the players for whom the database fails during this tick (a
\* fault of the database counts among the events of a run), maxTicks:
\* the ticks of the run
TickWithin(tipFail, dbFail, maxTicks) ==
    /\ enabled /\ main_pc = "idle"
    /\ host_tasks > 0
    /\ ticks < maxTicks
    /\ IF dbFail = {} THEN UNCHANGED events ELSE Event
    /\ window_moves' = NoMoves
    /\ ticks' = ticks + 1
    /\ UNCHANGED <<cfgVars, thirst_items, db_open, hostVars, enabled,
                   taskVars, threadVars, reloadVars>>
    /\ \E st \in {TickLoop(TickState(player_xuid_to_thirst,
                                    player_moving_flags, player_thirst),
                          online_players, CurrentCfg,
                          thirst_damage_timer + 1,
                          Writable(db_open, dbFail), health, tipFail)} :
       LET timer == thirst_damage_timer + 1
       IN  /\ player_xuid_to_thirst' = st.thirst
           /\ player_moving_flags' = st.flags
           /\ player_thirst' = st.table
           /\ thirst_damage_timer' = TimerAfterTick(timer, st.aborted)
           /\ since_damage' = SinceAfterTick(st.damaged)
           /\ damage_gap' = GapAfterTick(st.damaged)
           /\ lastOp' = TickOp(st, timer, Online)

TickWith(tipFail, dbFail) == TickWithin(tipFail, dbFail, MaxTicks)

\* the tick with a database that works
Tick(tipFail) == TickWith(tipFail, {})

\* the same tick in a run that follows the players' life cycle
LifeTick(tipFail) == ticks < LifeTicks /\ Tick(tipFail)

\* ------------------------------------------------------------- reload
\* _reload_survival_settings with a host scheduler: load, cancel, start
\* a start of the task that also starts the count of ticks again
CounterAfterStartReset(timer) == 0

\* thirst_damage_timer after _start_thirst_timer, which assigns
\* self.thirst_task only
CounterAfterStart(timer) == timer

\* value: what the administrator submitted, "" for the reload command
ReloadWith(c0, kind, value) ==
    \E c \in {LoadThirstSettings(c0)} :
        /\ setting_dict' = c.dict
        /\ setting_file' =
              FileAfterLoad(IF kind = "submit"
                            THEN WriteFile(setting_file, c0.dict)
                            ELSE setting_file, c0.dict, c.dict)
        /\ thirst_decay_per_second' = c.decay
        /\ thirst_moving_multiplier' = c.move
        /\ thirst_initial' = c.initial
        /\ host_tasks' = CancelHost(thirst_task, host_tasks) + 1
        /\ thirst_task' = HostTask
        /\ loaded_cfgs' = loaded_cfgs \cup {Triple(c)}
        /\ thirst_damage_timer' = CounterAfterStart(thirst_damage_timer)
        /\ lastOp' = [Op(kind, 0, TRUE, {}, {}, Online)
                         EXCEPT !.value = value]
        /\ UNCHANGED <<player_xuid_to_thirst, player_moving_flags, dbVars,
                       hostVars, enabled, has_scheduler, threadVars, ticks,
                       damageVars, windowVars>>

ReloadFrom(c0, kind) == ReloadWith(c0, kind, "")

ReloadSurvivalSettings ==
    /\ enabled /\ main_pc = "idle" /\ has_scheduler
    /\ Event
    /\ ReloadFrom(CurrentCfg, "reload")

\* on_submit without the upper limit of the initial level
FormValidNoCeiling(inp) ==
    /\ \A i \in 1..3 : CanParse(inp[i])
    /\ ~(ParseFloat(inp[1]) < Dec(0))
    /\ ~(ParseFloat(inp[2]) < Dec(10))
    /\ ~(ParseFloat(inp[3]) < MinThirst)

\* on_submit accepts the three inputs
FormValid(inp) ==
    /\ \A i \in 1..3 : CanParse(inp[i])
    /\ ~(ParseFloat(inp[1]) < Dec(0))
    /\ ~(ParseFloat(inp[2]) < Dec(10))
    /\ ~(ParseFloat(inp[3]) < MinThirst \/ ParseFloat(inp[3]) > MaxThirst)

\* the dictionary after the three SetSetting calls of on_submit
FormDict(d, inp) ==
    SetSetting(
        SetSetting(
            SetSetting(d, KeyDecay, StrOfFloat(ParseFloat(inp[1]))),
            KeyMove, StrOfFloat(ParseFloat(inp[2]))),
        KeyInitial, StrOfFloat(ParseFloat(inp[3])))

\* on_submit of the configuration form
OnSubmit(inp) ==
    /\ enabled /\ main_pc = "idle" /\ has_scheduler
    /\ Event
    /\ IF FormValid(inp)
       THEN ReloadWith([CurrentCfg EXCEPT !.dict = FormDict(setting_dict, inp)],
                       "submit", inp)
       ELSE /\ lastOp' = [Op("submit", 0, FALSE, {}, {}, Online)
                            EXCEPT !.value = inp]
            /\ UNCHANGED <<cfgVars, memVars, dbVars, hostVars, enabled,
                           taskVars, threadVars, ticks, damageVars, windowVars,
                           reloadVars>>

\* ------------------------------------------------- disable and restart
RECURSIVE PersistAll(_, _, _, _, _)
PersistAll(table, open, thirst, ps, initial) ==
    IF ps = <<>> THEN table
    ELSE PersistAll(PersistPlayerThirst(table, open, thirst, Head(ps),
                                        initial),
                    open, thirst, Tail(ps), initial)

\* on_disable: close the connection, cancel the task, save the players
OnDisable ==
    /\ enabled /\ main_pc = "idle" /\ has_scheduler
    /\ Event
    /\ LET open1 == FALSE
       IN  /\ db_open' = open1
           /\ host_tasks' = CancelHost(thirst_task, host_tasks)
           /\ thirst_task' = NoTask
           /\ player_thirst' = PersistAll(player_thirst, open1,
                                   player_xuid_to_thirst, online_players,
                                   thirst_initial)
    /\ enabled' = FALSE
    /\ lastOp' = Op("disable", 0, TRUE, Online, {}, Online)
    /\ UNCHANGED <<cfgVars, memVars, thirst_items, hostVars, has_scheduler,
                   threadVars, ticks, damageVars, windowVars, reloadVars>>

\* a new plugin instance: __init__, on_load, on_enable; the players stay
\* online over a plugin reload (keep) and are gone after a server restart
Startup(keep) ==
    /\ ~enabled /\ has_scheduler
    /\ Event
    /\ LET d0 == GetSettingDict(setting_dict, KeyLanguage)
           f0 == GetSettingFile(setting_file, setting_dict, KeyLanguage)
           c == LoadThirstSettings(
                   Cfg(d0, DefaultDecay, DefaultMultiplier, DefaultInitial))
       IN  /\ setting_dict' = c.dict
           /\ setting_file' = FileAfterLoad(f0, d0, c.dict)
           /\ thirst_decay_per_second' = c.decay
           /\ thirst_moving_multiplier' = c.move
           /\ thirst_initial' = c.initial
           /\ loaded_cfgs' = loaded_cfgs \cup {Triple(c)}
    /\ player_xuid_to_thirst' = EmptyMap
    /\ player_moving_flags' = {}
    /\ thirst_damage_timer' = 0
    /\ db_open' = TRUE
    /\ enabled' = TRUE
    /\ thirst_task' = HostTask
    /\ host_tasks' = host_tasks + 1
    /\ online_players' = IF keep THEN online_players ELSE <<>>
    /\ lastOp' = Op("startup", 0, TRUE, {}, {},
                    IF keep THEN Online ELSE {})
    /\ window_moves' = NoMoves
    /\ UNCHANGED <<player_thirst, thirst_items, health, has_scheduler,
                   threadVars, ticks, damageVars>>

\* ---------------------------------------------------------------- Spec
Next ==
    \/ \E x \in Players : OnPlayerJoin(x)
    \/ \E x \in Players : OnPlayerQuit(x)
    \/ \E x \in Players : OnPlayerMove(x)
    \/ \E x \in Players, key \in ItemKeys, tipFail \in BOOLEAN :
          OnPlayerItemConsume(x, key, tipFail)
    \/ \E key \in ItemKeys, inp \in ItemInputs : ItemConfigSubmit(key, inp)
    \/ \E item_id \in DOMAIN thirst_items, inp \in ItemInputs :
          EditItemSubmit(item_id, inp)
    \/ \E x \in Players : OnActorDeath(x)
    \/ \E tipFail \in TipFailures : LifeTick(tipFail)
    \/ ReloadSurvivalSettings
    \/ \E inp \in FormInputs : OnSubmit(inp)
    \/ OnDisable
    \/ \E keep \in BOOLEAN : Startup(keep)

Spec == Init /\ [][Next]_vars


\* ------------------------------------------- fallback timer: _ArcTimer
\* Without a host scheduler the tick runs on the thread of a
\* threading.Timer and interleaves, statement by statement, with the
\* handlers of the host thread and with the thread of another _ArcTimer;
\* no lock is held anywhere.  arc[t].pc is the position of the timer
\* thread of _ArcTimer t:
\*   "idle"     no firing in flight
\*   "run"      the timer has expired, _run is about to call tick()
\*   "list"     past line 903, before the loop takes the list (905)
\*   "loop"     at the head of the loop (905/906)
\*   "flag"     before line 909        "decay"    before line 910
\*   "read"     before line 879        "write"    before lines 880-886
\*   "damage"   before line 914        "unflag"   before line 929
\*   "persist"  before line 858        "query"    before line 860
\*   "save"     before the insert or update of lines 866-872
\*   "reset"    before line 937
\*   "check"    at the test of _stop   "arm"      past the test, before
\*                                                Timer(...).start()
\* base_decay, moving_flag, decay, cur (current), thirst and exists are
\* the local variables of tick(), _apply_thirst_delta and
\* _persist_player_thirst on that thread.
FallbackFiles ==
    { EmptyMap,
      (KeyDecay :> "1.0") @@ (KeyMove :> "0.5") @@ (KeyInitial :> "100.0") }

FallbackCounters == {0, CheckInterval - 1}

InitFallback ==
    \E file \in FallbackFiles, counter \in FallbackCounters :
        InitAt(file, FALSE, EmptyMap, EmptyMap, counter)

Timers == 1..Len(arc)

\* the positions inside tick()
BodyPcs ==
    {"list", "loop", "flag", "decay", "read", "write", "damage", "unflag",
     "persist", "query", "save", "reset"}

\* what no step of a timer thread changes
ArcFrame ==
    UNCHANGED <<main_locals, cfgVars, thirst_items, db_open, hostVars,
                enabled, taskVars, main_pc, events, reloadVars, lastOp>>

\* a step of a timer thread that changes its own position and local
\* variables only
ArcOnly ==
    /\ ArcFrame
    /\ UNCHANGED <<memVars, player_thirst, ticks, damageVars, windowVars>>

\* the local variables of an iteration, empty between two iterations
ArcCleared(a) ==
    [a EXCEPT !.base_decay = 0, !.moving_flag = FALSE, !.decay = 0,
              !.cur = 0, !.thirst = 0, !.exists = FALSE]

\* the armed threading.Timer expires: Timer.run finds it not cancelled and
\* calls _run; from here on cancel() comes too late for this firing
ArcFireWithin(t, maxTicks) ==
    /\ arc[t].armed /\ arc[t].pc = "idle"
    /\ ticks < maxTicks
    /\ arc' = [arc EXCEPT ![t].armed = FALSE, ![t].pc = "run",
                          ![t].late = arc[t].cancelled]
    /\ ticks' = ticks + 1
    /\ ArcFrame
    /\ UNCHANGED <<memVars, player_thirst, damageVars, windowVars>>

ArcFire(t) == ArcFireWithin(t, TimerTicks)

\* _run calls tick(); line 903: self.thirst_damage_timer += 1
ArcCount(t) ==
    /\ arc[t].pc = "run"
    /\ arc' = [arc EXCEPT ![t].pc = "list", ![t].seen = {},
                          ![t].raised = FALSE]
    /\ thirst_damage_timer' = thirst_damage_timer + 1
    /\ since_damage' = SinceAfterTick({})
    /\ window_moves' = NoMoves
    /\ ArcFrame
    /\ UNCHANGED <<player_xuid_to_thirst, player_moving_flags,
                   player_thirst, ticks, damage_gap>>

\* line 905: the loop takes the list of server.online_players
ArcList(t) ==
    /\ arc[t].pc = "list"
    /\ arc' = [arc EXCEPT ![t].pc = "loop", ![t].ps = online_players]
    /\ ArcOnly

\* line 906, for the next player of the list, online or not by now:
\* base_decay = self.thirst_decay_per_second
ArcBaseDecay(t) ==
    /\ arc[t].pc = "loop" /\ arc[t].ps # <<>>
    /\ arc' = [arc EXCEPT ![t].pc = "flag",
                          ![t].base_decay = thirst_decay_per_second,
                          ![t].hit = 0,
                          ![t].seen = @ \cup
                              {<<1, thirst_decay_per_second>>}]
    /\ ArcOnly

\* line 909: moving_flag = self.player_moving_flags.get(xuid, False)
ArcFlag(t) ==
    /\ arc[t].pc = "flag"
    /\ arc' = [arc EXCEPT ![t].pc = "decay",
                          ![t].moving_flag =
                              Head(arc[t].ps) \in player_moving_flags]
    /\ ArcOnly

\* lines 910-911: the decay, with self.thirst_moving_multiplier read for
\* a moving player only; _apply_thirst_delta is called for a decay > 0
ArcDecay(t) ==
    /\ arc[t].pc = "decay"
    /\ \E decay \in {TickDecay(arc[t].base_decay, arc[t].moving_flag,
                               thirst_moving_multiplier)} :
          arc' = [arc EXCEPT
                    ![t].decay = decay,
                    ![t].pc = IF decay > 0 THEN "read" ELSE "damage",
                    ![t].seen =
                        IF arc[t].moving_flag
                        THEN @ \cup {<<2, thirst_moving_multiplier>>}
                        ELSE @]
    /\ ArcOnly

\* _apply_thirst_delta, line 879: current is read from the store, and is
\* self.thirst_initial for a player without a level
ArcRead(t) ==
    /\ arc[t].pc = "read"
    /\ arc' = [arc EXCEPT
                 ![t].pc = "write",
                 ![t].cur = Get(player_xuid_to_thirst, Head(arc[t].ps),
                                thirst_initial),
                 ![t].seen =
                     IF Head(arc[t].ps) \in DOMAIN player_xuid_to_thirst
                     THEN @ ELSE @ \cup {<<3, thirst_initial>>}]
    /\ ArcOnly

\* tick() ends without its except clause and _run without its finally
PcAfterIterationNoFinally(aborted) == IF aborted THEN "idle" ELSE "damage"

\* where the timer thread is after _apply_thirst_delta: an exception is
\* caught by tick(), tick() returns and the finally clause of _run calls
\* _schedule
PcAfterIteration(aborted) == IF aborted THEN "check" ELSE "damage"

\* lines 880-886: the level computed from current is stored and the tip
\* sent when the floor changed; tipFail: send_tip raises, which leaves
\* the loop and the tick
ArcWrite(t, tipFail) ==
    /\ arc[t].pc = "write"
    /\ \E new_val \in {ClampThirst(FloatAdd(arc[t].cur, 0 - arc[t].decay))} :
          LET raised == tipFail /\ Floor(new_val) # Floor(arc[t].cur)
              a == [arc[t] EXCEPT
                      !.raised = raised,
                      !.ps = IF raised THEN <<>> ELSE @,
                      !.pc = PcAfterIteration(raised)]
          IN  /\ player_xuid_to_thirst' =
                    Put(player_xuid_to_thirst, Head(arc[t].ps), new_val)
              /\ arc' = [arc EXCEPT ![t] = IF raised THEN ArcCleared(a)
                                           ELSE a]
    /\ ArcFrame
    /\ UNCHANGED <<player_moving_flags, thirst_damage_timer, player_thirst,
                   ticks, damageVars, windowVars>>

\* lines 914-918 and _apply_thirst_damage: on a check tick the level is
\* read again and the damage applied to a living player at level 0
ArcDamage(t) ==
    /\ arc[t].pc = "damage"
    /\ LET x == Head(arc[t].ps)
           call == /\ thirst_damage_timer >= CheckInterval
                   /\ Get(player_xuid_to_thirst, x, thirst_initial) <= 0
           damage == call /\ DamageApplies(player_xuid_to_thirst, x,
                                           thirst_initial, health)
       IN  /\ arc' = [arc EXCEPT ![t].pc = "unflag",
                                 ![t].hit = IF damage THEN x ELSE 0]
           /\ since_damage' = [since_damage EXCEPT
                                 ![x] = IF damage THEN 0 ELSE @]
           /\ damage_gap' = [damage_gap EXCEPT
                               ![x] = IF damage
                                      THEN Min(@, since_damage[x]) ELSE @]
    /\ ArcFrame
    /\ UNCHANGED <<memVars, player_thirst, ticks, windowVars>>

\* lines 929-930: the moving flag of the player is deleted
ArcUnflag(t) ==
    /\ arc[t].pc = "unflag"
    /\ arc' = [arc EXCEPT ![t].pc = "persist", ![t].hit = 0]
    /\ player_moving_flags' = player_moving_flags \ {Head(arc[t].ps)}
    /\ ArcFrame
    /\ UNCHANGED <<player_xuid_to_thirst, thirst_damage_timer,
                   player_thirst, ticks, damageVars, windowVars>>

\* _persist_player_thirst, line 858: the level is read from the store
ArcPersistRead(t) ==
    /\ arc[t].pc = "persist"
    /\ arc' = [arc EXCEPT
                 ![t].pc = "query",
                 ![t].thirst = Get(player_xuid_to_thirst, Head(arc[t].ps),
                                   thirst_initial)]
    /\ ArcOnly

\* line 860: does the player have a row
ArcPersistQuery(t) ==
    /\ arc[t].pc = "query"
    /\ arc' = [arc EXCEPT
                 ![t].pc = "save",
                 ![t].exists = DbHasRow(player_thirst, db_open,
                                        Head(arc[t].ps))]
    /\ ArcOnly

\* lines 866-872: the row is inserted or updated with the level read at
\* line 858; the iteration is over
ArcPersistWrite(t) ==
    /\ arc[t].pc = "save"
    /\ player_thirst' =
          IF arc[t].exists
          THEN DbUpdate(player_thirst, db_open, Head(arc[t].ps),
                        arc[t].thirst)
          ELSE DbInsert(player_thirst, db_open, Head(arc[t].ps),
                        arc[t].thirst)
    /\ arc' = [arc EXCEPT ![t] = ArcCleared([arc[t] EXCEPT
                                                !.pc = "loop",
                                                !.ps = Tail(@)])]
    /\ ArcFrame
    /\ UNCHANGED <<memVars, ticks, damageVars, windowVars>>

\* the loop is over; line 936: if self.thirst_damage_timer >= 10
ArcLoopEnd(t) ==
    /\ arc[t].pc = "loop" /\ arc[t].ps = <<>>
    /\ arc' = [arc EXCEPT
                 ![t].pc = IF thirst_damage_timer >= CheckInterval
                           THEN "reset" ELSE "check",
                 ![t].seen = {}, ![t].hit = 0]
    /\ ArcOnly

\* line 937: self.thirst_damage_timer = 0; tick() returns
ArcReset(t) ==
    /\ arc[t].pc = "reset"
    /\ thirst_damage_timer' = 0
    /\ arc' = [arc EXCEPT ![t].pc = "check"]
    /\ ArcFrame
    /\ UNCHANGED <<player_xuid_to_thirst, player_moving_flags,
                   player_thirst, ticks, damageVars, windowVars>>

\* _schedule: if self._stop: return
ArcCheck(t) ==
    /\ arc[t].pc = "check"
    /\ arc' = [arc EXCEPT ![t].pc = IF arc[t].stop THEN "idle" ELSE "arm",
                          ![t].seen = {}, ![t].hit = 0]
    /\ ArcOnly

\* _schedule: self._timer = threading.Timer(...); self._timer.start()
ArcArm(t) ==
    /\ arc[t].pc = "arm"
    /\ arc' = [arc EXCEPT ![t].pc = "idle", ![t].armed = TRUE]
    /\ ArcOnly

\* the next statement of tick() on the thread of _ArcTimer t
ArcBody(t) ==
    \/ ArcCount(t)
    \/ ArcList(t)
    \/ ArcBaseDecay(t)
    \/ ArcFlag(t)
    \/ ArcDecay(t)
    \/ ArcRead(t)
    \/ \E tipFail \in BOOLEAN : ArcWrite(t, tipFail)
    \/ ArcDamage(t)
    \/ ArcUnflag(t)
    \/ ArcPersistRead(t)
    \/ ArcPersistQuery(t)
    \/ ArcPersistWrite(t)
    \/ ArcLoopEnd(t)
    \/ ArcReset(t)

\* ---- the event handlers on the host thread, statement by statement
\* In fallback mode the timer thread runs between the statements of a
\* handler; the handlers of the host thread follow one another.

\* on_player_join, after the host has added the player:
\* _load_player_thirst asks for the row of the player (line 839)
JoinQuery(x) ==
    /\ enabled /\ main_pc = "idle" /\ ~has_scheduler
    /\ Event
    /\ x \notin Online
    /\ online_players' = Append(online_players, x)
    /\ health' = [health EXCEPT ![x] = FullHealth]
    /\ main_locals' = [NoLocals EXCEPT
                          !.player = x, !.handler = "join",
                          !.exists = DbHasRow(player_thirst, db_open, x),
                          !.row = Get(player_thirst, x, 0)]
    /\ main_pc' = "join_store"
    /\ UNCHANGED <<cfgVars, memVars, dbVars, enabled, taskVars, arc, ticks,
                   damageVars, windowVars, reloadVars, lastOp>>

\* _load_player_thirst stores the level of the row (line 851), or the
\* initial level for a player without a row (line 841)
JoinStore ==
    /\ main_pc = "join_store"
    /\ LET x == main_locals.player
           level == IF main_locals.exists THEN main_locals.row
                    ELSE thirst_initial
       IN  player_xuid_to_thirst' = Put(player_xuid_to_thirst, x, level)
    /\ main_pc' = IF main_locals.exists THEN "join_return" ELSE "join_insert"
    /\ UNCHANGED <<main_locals, cfgVars, player_moving_flags,
                   thirst_damage_timer, dbVars, hostVars, enabled, taskVars,
                   arc, countVars, damageVars, windowVars, reloadVars, lastOp>>

\* lines 844-849: the row of a new player is inserted with the initial
\* level
JoinInsert ==
    /\ main_pc = "join_insert"
    /\ player_thirst' = DbInsert(player_thirst, db_open, main_locals.player,
                                 thirst_initial)
    /\ main_pc' = "join_return"
    /\ UNCHANGED <<main_locals, cfgVars, memVars, thirst_items, db_open,
                   hostVars, enabled, taskVars, arc, countVars, damageVars,
                   windowVars, reloadVars, lastOp>>

\* line 853: return self.player_xuid_to_thirst[xuid]; on_player_join
\* returns
JoinReturn ==
    /\ main_pc = "join_return"
    /\ LET x == main_locals.player
       IN  lastOp' = [Op("join", x, TRUE, {x}, {}, Online)
                        EXCEPT !.ret = player_xuid_to_thirst[x]]
    /\ main_pc' = "idle"
    /\ main_locals' = NoLocals
    /\ UNCHANGED <<cfgVars, memVars, dbVars, hostVars, enabled, taskVars,
                   arc, countVars, damageVars, windowVars, reloadVars>>

\* on_player_quit: _persist_player_thirst reads the level (line 858)
QuitRead(x) ==
    /\ enabled /\ main_pc = "idle" /\ ~has_scheduler
    /\ Event
    /\ x \in Online
    /\ main_locals' = [NoLocals EXCEPT
                          !.player = x, !.handler = "quit",
                          !.thirst = Get(player_xuid_to_thirst, x,
                                         thirst_initial)]
    /\ main_pc' = "persist_query"
    /\ UNCHANGED <<cfgVars, memVars, dbVars, hostVars, enabled, taskVars,
                   arc, ticks, damageVars, windowVars, reloadVars, lastOp>>

\* on_player_item_consume: the row of the lower-cased item id is looked
\* up (line 1044); with a row, _apply_thirst_delta reads the level of the
\* player (line 879)
ConsumeRead(x, key) ==
    /\ enabled /\ main_pc = "idle" /\ ~has_scheduler
    /\ Event
    /\ x \in Online
    /\ LET item_id == Lower(key)
       IN  IF item_id \notin DOMAIN thirst_items
           THEN /\ lastOp' = [Op("consume", x, TRUE, {}, {}, Online)
                                EXCEPT !.key = item_id]
                /\ UNCHANGED <<main_pc, main_locals>>
           ELSE /\ main_locals' =
                      [NoLocals EXCEPT
                          !.player = x, !.handler = "consume",
                          !.key = item_id,
                          !.thirst_delta = thirst_items[item_id],
                          !.current = Get(player_xuid_to_thirst, x,
                                          thirst_initial)]
                /\ main_pc' = "consume_store"
                /\ UNCHANGED lastOp
    /\ UNCHANGED <<cfgVars, memVars, dbVars, hostVars, enabled, taskVars,
                   arc, ticks, damageVars, windowVars, reloadVars>>

\* _apply_thirst_delta stores the level computed from current (lines
\* 880-881) and sends the tip when the floor changed; tipFail: send_tip
\* raises, which ends the handler before _persist_player_thirst
ConsumeStore(tipFail) ==
    /\ main_pc = "consume_store"
    /\ LET x == main_locals.player
           new_val == ClampThirst(FloatAdd(main_locals.current,
                                           main_locals.thirst_delta))
           raised == /\ Floor(new_val) # Floor(main_locals.current)
                     /\ tipFail
       IN  /\ player_xuid_to_thirst' = Put(player_xuid_to_thirst, x, new_val)
           /\ lastOp' = [Op("consume", x, FALSE, {}, {}, Online)
                           EXCEPT !.delta = main_locals.thirst_delta,
                                  !.key = main_locals.key,
                                  !.before = main_locals.current]
           /\ main_pc' = IF raised THEN "idle" ELSE "persist_read"
           /\ main_locals' = IF raised THEN NoLocals ELSE main_locals
    /\ UNCHANGED <<cfgVars, player_moving_flags, thirst_damage_timer, dbVars,
                   hostVars, enabled, taskVars, arc, countVars, damageVars,
                   windowVars, reloadVars>>

\* _persist_player_thirst of the consumption, or of on_disable for the
\* next player, reads the level (line 858)
PersistRead ==
    /\ main_pc = "persist_read"
    /\ main_locals' = [main_locals EXCEPT
                          !.thirst = Get(player_xuid_to_thirst,
                                         main_locals.player, thirst_initial)]
    /\ main_pc' = "persist_query"
    /\ UNCHANGED <<cfgVars, memVars, dbVars, hostVars, enabled, taskVars,
                   arc, countVars, damageVars, windowVars, reloadVars,
                   lastOp>>

\* _persist_player_thirst asks whether the player has a row (line 860)
PersistQuery ==
    /\ main_pc = "persist_query"
    /\ main_locals' = [main_locals EXCEPT
                          !.exists = DbHasRow(player_thirst, db_open,
                                              main_locals.player)]
    /\ main_pc' = "persist_write"
    /\ UNCHANGED <<cfgVars, memVars, dbVars, hostVars, enabled, taskVars,
                   arc, countVars, damageVars, windowVars, reloadVars,
                   lastOp>>

\* _persist_player_thirst inserts or updates the row with the level it
\* read (lines 866-872).  The consumption handler returns; on_player_quit
\* returns to the host; on_disable goes on with the next player of its
\* list and returns after the last one
PersistWrite ==
    /\ main_pc = "persist_write"
    /\ LET x == main_locals.player
       IN  /\ player_thirst' =
                 IF main_locals.exists
                 THEN DbUpdate(player_thirst, db_open, x, main_locals.thirst)
                 ELSE DbInsert(player_thirst, db_open, x, main_locals.thirst)
           /\ IF main_locals.handler = "quit"
              THEN /\ main_pc' = "quit_leave"
                   /\ UNCHANGED <<main_locals, lastOp, enabled>>
              ELSE IF main_locals.handler = "disable"
              THEN IF main_locals.ps # <<>>
                   THEN /\ main_pc' = "persist_read"
                        /\ main_locals' =
                              [NoLocals EXCEPT
                                  !.handler = "disable",
                                  !.player = Head(main_locals.ps),
                                  !.ps = Tail(main_locals.ps)]
                        /\ UNCHANGED <<lastOp, enabled>>
                   ELSE /\ main_pc' = "idle"
                        /\ main_locals' = NoLocals
                        /\ enabled' = FALSE
                        /\ lastOp' = Op("disable", 0, TRUE, Online, {},
                                        Online)
              ELSE /\ main_pc' = "idle"
                   /\ main_locals' = NoLocals
                   /\ lastOp' = [Op("consume", x, TRUE, {x}, {}, Online)
                                   EXCEPT !.delta = main_locals.thirst_delta,
                                          !.key = main_locals.key,
                                          !.before = main_locals.current]
                   /\ UNCHANGED enabled
    /\ UNCHANGED <<cfgVars, memVars, thirst_items, db_open, hostVars,
                   taskVars, arc, countVars, damageVars, windowVars,
                   reloadVars>>

\* on_player_quit has returned: the host removes the player
QuitLeave ==
    /\ main_pc = "quit_leave"
    /\ online_players' = RemoveFromSeq(online_players, main_locals.player)
    /\ lastOp' = Op("quit", main_locals.player, TRUE, {main_locals.player},
                    {}, Online)
    /\ main_pc' = "idle"
    /\ main_locals' = NoLocals
    /\ UNCHANGED <<cfgVars, memVars, dbVars, health, enabled, taskVars, arc,
                   countVars, damageVars, windowVars, reloadVars>>

\* ---- _reload_survival_settings on the host thread, statement by statement
ValidForms == {inp \in FormInputs : FormValid(inp)}

\* the reload command (kind "reload", d the dictionary as it is), or
\* on_submit with valid inputs (kind "submit"), whose three calls of
\* SetSetting leave the dictionary d and rewrite the file from it
ReloadBegin(kind, d) ==
    /\ enabled /\ main_pc = "idle" /\ ~has_scheduler
    /\ Event
    /\ setting_dict' = d
    /\ setting_file' = IF kind = "submit" THEN WriteFile(setting_file, d)
                       ELSE setting_file
    /\ loaded_cfgs' = loaded_cfgs \cup
          {Triple(LoadThirstSettings([CurrentCfg EXCEPT !.dict = d]))}
    /\ main_pc' = "load_decay"
    /\ lastOp' = Op("reload", 0, FALSE, {}, {}, Online)
    /\ UNCHANGED <<main_locals, thirst_decay_per_second,
                   thirst_moving_multiplier, thirst_initial, memVars, dbVars,
                   hostVars, enabled, taskVars, arc, ticks, damageVars,
                   windowVars>>

ReloadLoadDecay ==
    /\ main_pc = "load_decay"
    /\ LET c == LoadDecay(CurrentCfg)
       IN  /\ setting_dict' = c.dict
           /\ setting_file' = FileAfterLoad(setting_file, setting_dict,
                                            c.dict)
           /\ thirst_decay_per_second' = c.decay
           /\ main_pc' = IF c.raised THEN "cancel_stop" ELSE "load_move"
    /\ UNCHANGED <<main_locals, thirst_moving_multiplier, thirst_initial,
                   memVars, dbVars, hostVars, enabled, taskVars, arc,
                   countVars, damageVars, windowVars, reloadVars, lastOp>>

ReloadLoadMove ==
    /\ main_pc = "load_move"
    /\ LET c == LoadMove(CurrentCfg)
       IN  /\ setting_dict' = c.dict
           /\ setting_file' = FileAfterLoad(setting_file, setting_dict,
                                            c.dict)
           /\ thirst_moving_multiplier' = c.move
           /\ main_pc' = IF c.raised THEN "cancel_stop" ELSE "load_initial"
    /\ UNCHANGED <<main_locals, thirst_decay_per_second, thirst_initial,
                   memVars, dbVars, hostVars, enabled, taskVars, arc,
                   countVars, damageVars, windowVars, reloadVars, lastOp>>

ReloadLoadInitial ==
    /\ main_pc = "load_initial"
    /\ LET c == LoadInitial(CurrentCfg)
       IN  /\ setting_dict' = c.dict
           /\ setting_file' = FileAfterLoad(setting_file, setting_dict,
                                            c.dict)
           /\ thirst_initial' = c.initial
           /\ main_pc' = "cancel_stop"
    /\ UNCHANGED <<main_locals, thirst_decay_per_second,
                   thirst_moving_multiplier, memVars, dbVars, hostVars,
                   enabled, taskVars, arc, countVars, damageVars, windowVars,
                   reloadVars, lastOp>>

\* cancel(): self._stop = True
ReloadCancelStop ==
    /\ main_pc = "cancel_stop"
    /\ IF thirst_task = NoTask
       THEN /\ main_pc' = "start"
            /\ UNCHANGED arc
       ELSE /\ arc' = [arc EXCEPT ![thirst_task].stop = TRUE]
            /\ main_pc' = "cancel_timer"
    /\ UNCHANGED <<main_locals, cfgVars, memVars, dbVars, hostVars, enabled,
                   taskVars, countVars, damageVars, windowVars, reloadVars,
                   lastOp>>

\* cancel(): self._timer.cancel(); cancel returns; self.thirst_task = None
ReloadCancelTimer ==
    /\ main_pc = "cancel_timer"
    /\ arc' = [arc EXCEPT ![thirst_task].armed = FALSE,
                          ![thirst_task].cancelled = TRUE]
    /\ thirst_task' = NoTask
    /\ main_pc' = "start"
    /\ UNCHANGED <<main_locals, cfgVars, memVars, dbVars, hostVars, enabled,
                   host_tasks, has_scheduler, countVars, damageVars,
                   windowVars, reloadVars, lastOp>>

\* _start_thirst_timer: self.thirst_task = _ArcTimer(1.0, tick)
ReloadStart ==
    /\ main_pc = "start"
    /\ arc' = Append(arc, NewArcTimer)
    /\ thirst_task' = Len(arc) + 1
    /\ main_pc' = "idle"
    /\ lastOp' = Op("reload", 0, TRUE, {}, {}, Online)
    /\ UNCHANGED <<main_locals, cfgVars, memVars, dbVars, hostVars, enabled,
                   host_tasks, has_scheduler, countVars, damageVars,
                   windowVars, reloadVars>>

NextFallback ==
    \/ \E x \in Players : JoinQuery(x)
    \/ JoinStore
    \/ JoinInsert
    \/ JoinReturn
    \/ \E x \in Players : OnPlayerMove(x)
    \/ \E t \in Timers : ArcFire(t)
    \/ \E t \in Timers : ArcBody(t)
    \/ \E t \in Timers : ArcCheck(t)
    \/ \E t \in Timers : ArcArm(t)
    \/ Len(arc) <= MaxReloads /\ ReloadBegin("reload", setting_dict)
    \/ /\ main_pc = "idle" /\ Len(arc) <= MaxReloads
       /\ \E inp \in ValidForms :
             ReloadBegin("submit", FormDict(setting_dict, inp))
    \/ ReloadLoadDecay
    \/ ReloadLoadMove
    \/ ReloadLoadInitial
    \/ ReloadCancelStop
    \/ ReloadCancelTimer
    \/ ReloadStart

SpecFallback == InitFallback /\ [][NextFallback]_vars

\* a detach while a tick is in flight on the timer thread: players of a
\* dry world (level 0) join and quit during DetachTicks ticks
DryFile == (KeyDecay :> "50.0") @@ (KeyMove :> "2.0") @@ (KeyInitial :> "0")

InitDetach == InitWith(DryFile, FALSE)

NextDetach ==
    \/ \E x \in Players : JoinQuery(x)
    \/ JoinStore
    \/ JoinInsert
    \/ JoinReturn
    \/ \E x \in Players : QuitRead(x)
    \/ PersistQuery
    \/ PersistWrite
    \/ QuitLeave
    \/ \E t \in Timers : ArcFireWithin(t, DetachTicks)
    \/ \E t \in Timers : ArcBody(t)
    \/ \E t \in Timers : ArcCheck(t)
    \/ \E t \in Timers : ArcArm(t)

SpecDetach == InitDetach /\ [][NextDetach]_vars

\* ---------------------------------------------- the scheduler keeps firing
\* Both drivers with the progress their scheduling gives: the host calls
\* the repeating task every 20 server ticks until it is cancelled, an armed
\* threading.Timer expires, and the timer thread runs on.
InitLive ==
    \/ InitWith(EmptyMap, TRUE)
    \/ \E counter \in FallbackCounters :
          InitAt(EmptyMap, FALSE, EmptyMap, EmptyMap, counter)

\* the players who join while an _ArcTimer drives the ticks
LivePlayers == {1}

\* the _ArcTimer objects of a run: the first one and the one a reload
\* starts (the administrator reloads once)
LiveTimers == {1, 2}

NextLive ==
    \/ \E x \in Players : has_scheduler /\ OnPlayerJoin(x)
    \/ \E x \in LivePlayers : JoinQuery(x)
    \/ JoinStore
    \/ JoinInsert
    \/ JoinReturn
    \/ \E tipFail \in TipFailures : LifeTick(tipFail)
    \/ OnDisable
    \/ \E t \in Timers : ArcFire(t)
    \/ \E t \in Timers : ArcBody(t)
    \/ \E t \in Timers : ArcCheck(t)
    \/ \E t \in Timers : ArcArm(t)
    \/ Timers = {1} /\ ReloadBegin("reload", setting_dict)
    \/ ReloadLoadDecay
    \/ ReloadLoadMove
    \/ ReloadLoadInitial
    \/ ReloadCancelStop
    \/ ReloadCancelTimer
    \/ ReloadStart

\* the next step of _ArcTimer t: its armed timer expires, or its thread
\* goes on with the callback and _schedule
ArcStep(t) ==
    /\ t \in Timers
    /\ \/ ArcFire(t)
       \/ ArcBody(t)
       \/ ArcCheck(t)
       \/ ArcArm(t)

FairLive ==
    /\ WF_vars(\E tipFail \in TipFailures : LifeTick(tipFail))
    /\ \A t \in LiveTimers : WF_vars(ArcStep(t))

SpecLive == InitLive /\ [][NextLive]_vars /\ FairLive

\* the threshold cadence: joins, movement, consumption and MaxTicks ticks
NextCadence ==
    \/ \E x \in Players : OnPlayerJoin(x)
    \/ \E x \in Players : OnPlayerMove(x)
    \/ \E x \in Players, key \in ItemKeys, tipFail \in BOOLEAN :
          OnPlayerItemConsume(x, key, tipFail)
    \/ \E tipFail \in TipFailures : Tick(tipFail)

CadenceFiles ==
    { EmptyMap,
      (KeyDecay :> "50.0") @@ (KeyMove :> "2.0") @@ (KeyInitial :> "0") }

\* a start after an administrator has stored the row of the potion
InitCadence ==
    \E file \in CadenceFiles : InitFrom(file, TRUE, EmptyMap, PotionStored)

SpecCadence == InitCadence /\ [][NextCadence]_vars

\* ------------------------------------------------ attach, save, reset
\* The server starts with the rows earlier runs left in player_thirst;
\* players join, quit, consume and die while the tick runs.
StoredTables ==
    {EmptyMap, (1 :> Dec(425)), (1 :> Dec(425)) @@ (2 :> Dec(0))}

AttachFiles ==
    { EmptyMap,
      (KeyDecay :> "50.0") @@ (KeyMove :> "2.0") @@ (KeyInitial :> "150.0") }

\* _persist_player_thirst(player), called for any player at any time;
\* again: the call before was the same call for the same player
SaveCall(x) ==
    /\ enabled /\ main_pc = "idle"
    /\ Event
    /\ player_thirst' = PersistPlayerThirst(player_thirst, db_open,
                            player_xuid_to_thirst, x, thirst_initial)
    /\ lastOp' = [Op("save", x, TRUE, {x}, {}, Online) EXCEPT
                    !.ret = Get(player_xuid_to_thirst, x, thirst_initial),
                    !.again = lastOp.kind = "save" /\ lastOp.who = x]
    /\ UNCHANGED <<cfgVars, memVars, thirst_items, db_open, hostVars,
                   enabled, taskVars, threadVars, ticks, damageVars,
                   windowVars, reloadVars>>

InitAttach ==
    \E file \in AttachFiles, table \in StoredTables, items \in StoredItems :
        InitFrom(file, TRUE, table, items)

NextAttach ==
    \/ \E x \in Players : OnPlayerJoin(x)
    \/ \E x \in Players : OnPlayerQuit(x)
    \/ \E x \in Players, key \in ItemKeys, tipFail \in BOOLEAN :
          OnPlayerItemConsume(x, key, tipFail)
    \/ \E x \in Players : OnActorDeath(x)
    \/ \E x \in Players : SaveCall(x)
    \/ \E tipFail \in TipFailures : LifeTick(tipFail)

SpecAttach == InitAttach /\ [][NextAttach]_vars

\* ------------------------------------------------ a player's long run
\* decay 1.0, multiplier 2.0, initial level 100: a player joins when the
\* server has ticked up to 9 times, stands still for StationaryTicks
\* ticks, then moves in every tick window, MovingTicks and 10 more ticks.
ScenarioFile ==
    (KeyDecay :> "1.0") @@ (KeyMove :> "2.0") @@ (KeyInitial :> "100.0")

ScenarioTicks == StationaryTicks + MovingTicks + CheckInterval

InitScenario ==
    \E counter \in 0..(CheckInterval - 1) :
        InitAt(ScenarioFile, TRUE, EmptyMap, EmptyMap, counter)

ScenarioJoin ==
    /\ ticks = 0 /\ Online = {}
    /\ \E x \in Players : OnPlayerJoin(x)

\* one or two movement events in a tick window
ScenarioMove ==
    /\ ticks >= StationaryTicks
    /\ \E x \in Online : window_moves[x] < 2 /\ PlayerMoved(x)
    /\ UNCHANGED events

ScenarioTick ==
    /\ Online # {}
    /\ ticks \in StationaryTicks..(StationaryTicks + MovingTicks - 1)
          => \A x \in Online : window_moves[x] >= 1
    /\ \E tipFail \in TipFailures : TickWithin(tipFail, {}, ScenarioTicks)

NextScenario ==
    \/ ScenarioJoin
    \/ ScenarioMove
    \/ ScenarioTick

SpecScenario == InitScenario /\ [][NextScenario]_vars

\* ------------------------------------------- consumption during a tick
\* Fallback mode: the host thread delivers joins and consumption while the
\* timer thread is inside _apply_thirst_delta.
InitRace ==
    \E table \in StoredTables, items \in StoredItems,
       counter \in FallbackCounters :
        InitAt(EmptyMap, FALSE, table, items, counter)

NextRace ==
    \/ \E x \in Players : JoinQuery(x)
    \/ JoinStore
    \/ JoinInsert
    \/ JoinReturn
    \/ \E x \in Players, key \in ItemKeys : ConsumeRead(x, key)
    \/ \E tipFail \in BOOLEAN : ConsumeStore(tipFail)
    \/ PersistRead
    \/ PersistQuery
    \/ PersistWrite
    \/ \E t \in Timers : ArcFire(t)
    \/ \E t \in Timers : ArcBody(t)
    \/ \E t \in Timers : ArcCheck(t)
    \/ \E t \in Timers : ArcArm(t)

SpecRace == InitRace /\ [][NextRace]_vars

\* ------------------------------------------------------ failing storage
\* The database fails for one player at most during a tick, and may raise
\* during a join.
DbFailures == {{}} \cup {{x} : x \in Online}

NextStorage ==
    \/ \E x \in Players, fault \in LoadFaults : OnPlayerJoinWith(x, fault)
    \/ \E tipFail \in TipFailures, dbFail \in DbFailures :
          TickWith(tipFail, dbFail)

InitStorage == InitWith(EmptyMap, TRUE)

SpecStorage == InitStorage /\ [][NextStorage]_vars

\* ------------------------------------------------- _apply_thirst_delta
\* The function by itself: any delta, for a player with or without a level
\* in the store, under every configuration a settings file gives.
DeltaInputs == {Dec(0 - 10000), Dec(10000), Dec(0 - 1), Dec(500), Dec(0)}

\* _apply_thirst_delta(player, delta); tipFail: player.send_tip raises.
\* The level is stored before the tip is sent, so an exception of send_tip
\* leaves the new level in the store and no value is returned.
ApplyDeltaCall(x, delta, tipFail) ==
    /\ enabled /\ main_pc = "idle"
    /\ Event
    /\ player_xuid_to_thirst' = ApplyThirstDelta(player_xuid_to_thirst, x,
                                     delta, thirst_initial)
    /\ LET raised == /\ TipSent(player_xuid_to_thirst, x, delta,
                                 thirst_initial)
                     /\ tipFail
           new_val == ClampThirst(FloatAdd(Get(player_xuid_to_thirst, x,
                                               thirst_initial), delta))
       IN  lastOp' = [Op("delta", x, ~raised, {}, {}, Online) EXCEPT
                        !.delta = delta,
                        !.ret = IF raised THEN 0 ELSE new_val,
                        !.prev = IF lastOp.kind = "delta" /\ lastOp.who = x
                                 THEN lastOp.delta ELSE 0]
    /\ UNCHANGED <<cfgVars, player_moving_flags, thirst_damage_timer, dbVars,
                   hostVars, enabled, taskVars, threadVars, ticks,
                   damageVars, windowVars, reloadVars>>

NextDelta ==
    \E x \in Players, delta \in DeltaInputs, tipFail \in BOOLEAN :
        ApplyDeltaCall(x, delta, tipFail)

SpecDelta == Init /\ [][NextDelta]_vars

\* ------------------------------------------------------ a decay of 0
\* decayPerSecond is 0: players with a row from an earlier run or without
\* one join and move while the tick runs through a check tick.
StillFiles ==
    { (KeyDecay :> "0") @@ (KeyMove :> "2.0") @@ (KeyInitial :> "100.0"),
      (KeyDecay :> "0") @@ (KeyMove :> "2.0") @@ (KeyInitial :> "0") }

InitStill ==
    \E file \in StillFiles, table \in StoredTables :
        InitFrom(file, TRUE, table, EmptyMap)

NextStill ==
    \/ \E x \in Players : OnPlayerJoin(x)
    \/ \E x \in Players : OnPlayerMove(x)
    \/ \E tipFail \in TipFailures : Tick(tipFail)

SpecStill == InitStill /\ [][NextStill]_vars

\* ------------------------------------------------------ SettingManager
\* The settings store by itself: a file as an administrator may have
\* left it, then any calls of GetSetting and SetSetting.
ConfigFiles ==
    { EmptyFile,
      << <<KeyDecay, "0.1">>, <<>> >>,
      << <<"# settings">>, <<KeyDecay, " 25.0 ">>, <<>>,
         <<KeyDecay, "2.0">>, <<" language", "">> >> }

ConfigKeys == {KeyDecay, KeyLanguage}

ConfigValues == {"0.1", "", " 25.0 ", "2.0"}

\* the state after SettingManager() in __init__, before on_enable
InitConfig ==
    /\ \E file \in ConfigFiles :
          /\ setting_file = file
          /\ setting_dict = LoadSettingFile(file)
    /\ thirst_decay_per_second = DefaultDecay
    /\ thirst_moving_multiplier = DefaultMultiplier
    /\ thirst_initial = DefaultInitial
    /\ player_xuid_to_thirst = EmptyMap
    /\ player_moving_flags = {}
    /\ thirst_damage_timer = 0
    /\ player_thirst = EmptyMap
    /\ thirst_items = EmptyMap
    /\ db_open = FALSE
    /\ online_players = <<>>
    /\ health = [x \in Players |-> FullHealth]
    /\ enabled = FALSE
    /\ has_scheduler = TRUE
    /\ thirst_task = NoTask
    /\ host_tasks = 0
    /\ arc = <<>>
    /\ main_pc = "idle"
    /\ main_locals = NoLocals
    /\ ticks = 0
    /\ events = 0
    /\ since_damage = [x \in Players |-> CheckInterval]
    /\ damage_gap = [x \in Players |-> CheckInterval]
    /\ loaded_cfgs = {}
    /\ window_moves = NoMoves
    /\ lastOp = Op("init", 0, TRUE, {}, {}, {})

\* GetSetting(key)
GetSettingCall(key) ==
    /\ Event
    /\ setting_dict' = GetSettingDict(setting_dict, key)
    /\ setting_file' = GetSettingFile(setting_file, setting_dict, key)
    /\ lastOp' = [Op("get", 0, TRUE, {}, {}, {}) EXCEPT
                     !.key = key, !.value = GetSetting(setting_dict, key)]
    /\ UNCHANGED <<thirst_decay_per_second, thirst_moving_multiplier,
                   thirst_initial, memVars, dbVars, hostVars, enabled,
                   taskVars, threadVars, ticks, damageVars, windowVars,
                   reloadVars>>

\* SetSetting(key, value)
SetSettingCall(key, value) ==
    /\ Event
    /\ setting_dict' = SetSetting(setting_dict, key, value)
    /\ setting_file' = WriteFile(setting_file,
                                 SetSetting(setting_dict, key, value))
    /\ lastOp' = [Op("set", 0, TRUE, {}, {}, {}) EXCEPT
                     !.key = key, !.value = value]
    /\ UNCHANGED <<thirst_decay_per_second, thirst_moving_multiplier,
                   thirst_initial, memVars, dbVars, hostVars, enabled,
                   taskVars, threadVars, ticks, damageVars, windowVars,
                   reloadVars>>

NextConfig ==
    \/ \E key \in ConfigKeys : GetSettingCall(key)
    \/ \E key \in ConfigKeys, value \in ConfigValues :
          SetSettingCall(key, value)

SpecConfig == InitConfig /\ [][NextConfig]_vars

\* ------------------------------------------- on_disable, fallback mode
\* on_disable on the host thread, statement by statement, while the
\* thread of an _ArcTimer may be anywhere in a firing.
\* db_manager.close()
DisableClose ==
    /\ enabled /\ main_pc = "idle" /\ ~has_scheduler
    /\ Event
    /\ db_open' = FALSE
    /\ main_pc' = "disable_stop"
    /\ lastOp' = Op("disable", 0, FALSE, {}, {}, Online)
    /\ UNCHANGED <<main_locals, cfgVars, memVars, player_thirst, thirst_items,
                   hostVars, enabled, taskVars, arc, ticks, damageVars,
                   windowVars, reloadVars>>

\* if self.thirst_task is not None: cancel(): self._stop = True
DisableCancelStop ==
    /\ main_pc = "disable_stop"
    /\ IF thirst_task = NoTask
       THEN /\ main_pc' = "disable_save"
            /\ UNCHANGED arc
       ELSE /\ arc' = [arc EXCEPT ![thirst_task].stop = TRUE]
            /\ main_pc' = "disable_timer"
    /\ UNCHANGED <<main_locals, cfgVars, memVars, dbVars, hostVars, enabled,
                   taskVars, countVars, damageVars, windowVars, reloadVars,
                   lastOp>>

\* cancel(): self._timer.cancel(); cancel returns; self.thirst_task = None
DisableCancelTimer ==
    /\ main_pc = "disable_timer"
    /\ arc' = [arc EXCEPT ![thirst_task].armed = FALSE,
                          ![thirst_task].cancelled = TRUE]
    /\ thirst_task' = NoTask
    /\ main_pc' = "disable_save"
    /\ UNCHANGED <<main_locals, cfgVars, memVars, dbVars, hostVars, enabled,
                   host_tasks, has_scheduler, countVars, damageVars,
                   windowVars, reloadVars, lastOp>>

\* line 119: the loop takes the list of server.online_players; with
\* nobody online on_disable returns, else _persist_player_thirst runs for
\* one player after the other (PersistRead, PersistQuery, PersistWrite)
DisableSave ==
    /\ main_pc = "disable_save"
    /\ IF online_players = <<>>
       THEN /\ enabled' = FALSE
            /\ main_pc' = "idle"
            /\ lastOp' = Op("disable", 0, TRUE, {}, {}, {})
            /\ UNCHANGED main_locals
       ELSE /\ main_locals' = [NoLocals EXCEPT
                                  !.handler = "disable",
                                  !.player = Head(online_players),
                                  !.ps = Tail(online_players)]
            /\ main_pc' = "persist_read"
            /\ UNCHANGED <<enabled, lastOp>>
    /\ UNCHANGED <<cfgVars, memVars, dbVars, hostVars, taskVars, arc,
                   countVars, damageVars, windowVars, reloadVars>>

InitShutdown ==
    \E counter \in FallbackCounters :
        InitAt(EmptyMap, FALSE, EmptyMap, EmptyMap, counter)

NextShutdown ==
    \/ \E x \in Players : JoinQuery(x)
    \/ JoinStore
    \/ JoinInsert
    \/ JoinReturn
    \/ \E t \in Timers : ArcFire(t)
    \/ \E t \in Timers : ArcBody(t)
    \/ \E t \in Timers : ArcCheck(t)
    \/ \E t \in Timers : ArcArm(t)
    \/ Timers = {1} /\ ReloadBegin("reload", setting_dict)
    \/ ReloadLoadDecay
    \/ ReloadLoadMove
    \/ ReloadLoadInitial
    \/ ReloadCancelStop
    \/ ReloadCancelTimer
    \/ ReloadStart
    \/ DisableClose
    \/ DisableCancelStop
    \/ DisableCancelTimer
    \/ DisableSave
    \/ PersistRead
    \/ PersistQuery
    \/ PersistWrite

SpecShutdown == InitShutdown /\ [][NextShutdown]_vars

\* =============================================================== claims
MemLevel(x) == Get(player_xuid_to_thirst, x, thirst_initial)

DurableMatches(x) ==
    x \in DOMAIN player_thirst /\ player_thirst[x] = MemLevel(x)

\* the level a decay leaves
LevelAfterDecay(level, decay) ==
    IF decay > 0 THEN ClampThirst(FloatAdd(level, 0 - decay)) ELSE level

\* C1: every level held in player_xuid_to_thirst is within [0, 100],
\* whichever operation wrote it.
C1_LevelsInRange ==
    \A x \in DOMAIN player_xuid_to_thirst :
        /\ MinThirst <= player_xuid_to_thirst[x]
        /\ player_xuid_to_thirst[x] <= MaxThirst

\* C2: two applications of the threshold damage to one player are at
\* least CheckInterval ticks apart, also when a tick was aborted.
C2_DamageOncePerWindow ==
    \A x \in Players : damage_gap[x] >= CheckInterval

\* C3: when the processing of one player raises in a tick, every other
\* online player is still processed to the end in that tick.
C3_OthersStillProcessed ==
    lastOp.kind = "tick" =>
        (lastOp.active \ {lastOp.who}) \subseteq lastOp.processed

\* after a tick, a consumption, a death or a quit, the durable level of
\* every player the operation processed equals the in-memory level
C7_RowAfterOperation ==
    lastOp.kind \in {"tick", "consume", "death", "quit"} =>
        \A x \in lastOp.processed : DurableMatches(x)

\* after a tick the row of an online player holds the level the player
\* has now or the level the player had before this tick
C7_LagAtMostOneTick ==
    [][(lastOp'.kind = "tick" /\ ticks' = ticks + 1) =>
          \A x \in Online :
             x \in DOMAIN player_thirst' =>
                player_thirst'[x] \in
                   { Get(player_xuid_to_thirst', x, thirst_initial'),
                     Get(player_xuid_to_thirst, x, thirst_initial) }]_vars

\* C7: with a working database, after a tick, a consumption, a death or a
\* quit, the durable level of every player the operation processed equals
\* the in-memory level, and the durable level never lags the in-memory
\* level by more than one tick.
C7_DurableFollowsMemory == []C7_RowAfterOperation /\ C7_LagAtMostOneTick

\* C8: for a player that has a durable record and no in-memory level, a
\* quit leaves the record as it is and a tick writes the record's level
\* less the decay, never a level derived from the initial level.
C8_RecordAuthoritative ==
    [][\A x \in Players :
          ( /\ x \in DOMAIN player_thirst
            /\ x \notin DOMAIN player_xuid_to_thirst
            /\ x \in lastOp'.processed
            /\ lastOp'.kind \in {"tick", "quit"} )
          => IF lastOp'.kind = "quit"
             THEN player_thirst'[x] = player_thirst[x]
             ELSE player_thirst'[x] \in
                    { LevelAfterDecay(player_thirst[x],
                                      TickDecay(thirst_decay_per_second, m,
                                                thirst_moving_multiplier))
                      : m \in BOOLEAN }]_vars

\* C9: after on_disable the durable level of every online player equals
\* its in-memory level.
C9_ShutdownSaves ==
    lastOp.kind = "disable" =>
        \A x \in lastOp.active : DurableMatches(x)

\* C10: after a quit the player's level is persisted and the player has
\* no entry in the level map and none in the moving flags.
C10_QuitForgets ==
    lastOp.kind = "quit" =>
        /\ DurableMatches(lastOp.who)
        /\ lastOp.who \notin DOMAIN player_xuid_to_thirst
        /\ lastOp.who \notin player_moving_flags


\* C4: once cancel() of an _ArcTimer has returned, that _ArcTimer arms no
\* timer and no timer of it expires (late); the firing that was dispatched
\* before may complete.
C4_CancelStopsTimer ==
    \A t \in Timers : arc[t].cancelled => (~arc[t].armed /\ ~arc[t].late)

\* C5: the settings that the iterations of one tick use (the decay, the
\* multiplier for a moving player, the initial level for a player without
\* a level) all belong to one configuration that a load produced as a
\* whole.
C5_TickSeesOneConfig ==
    \A t \in Timers :
        \/ arc[t].seen = {}
        \/ \E c \in loaded_cfgs : \A r \in arc[t].seen : c[r[1]] = r[2]

\* C6: at most one tick driver is armed at any time.
C6_OneDriver ==
    Cardinality({t \in Timers : arc[t].armed}) + host_tasks <= 1

\* a step that is one tick of the host scheduler
TickStep == lastOp'.kind = "tick" /\ ticks' = ticks + 1

\* C11: when an online player sent one or more movement signals since the
\* previous tick, the next tick lowers its level by decay * multiplier,
\* once, and leaves its moving flag clear.
C11_MovesDebounced ==
    [][TickStep =>
         \A x \in Online :
            window_moves[x] >= 1 =>
               /\ x \notin player_moving_flags'
               /\ Get(player_xuid_to_thirst', x, thirst_initial) =
                     LevelAfterDecay(MemLevel(x),
                        FloatMul(thirst_decay_per_second,
                                 thirst_moving_multiplier))]_vars

\* C12: a tick takes a player as moving only if a movement signal of that
\* player arrived since the previous tick fired.
C12_MovingOnlyInWindow ==
    [][TickStep => \A x \in lastOp'.moving : window_moves[x] >= 1]_vars

\* C13: between two ticks the threshold counter is in 0..9, also after a
\* tick in which the processing of a player failed.
C13_CounterBelowInterval ==
    thirst_damage_timer \in 0..(CheckInterval - 1)

\* C14: a living online player is damaged by a tick exactly when that tick
\* is a 10th tick and the player's level is 0 (the player in whose
\* iteration an exception was raised is left aside).
C14_DamageEveryTenthTick ==
    lastOp.kind = "tick" =>
        \A x \in lastOp.active \ {lastOp.who} :
            health[x] > 0 =>
                ( x \in lastOp.damaged
                  <=> (ticks % CheckInterval = 0 /\ MemLevel(x) <= 0) )

\* C15: on a check tick _apply_thirst_damage is called for exactly the
\* online players whose level after the decay of this tick is <= 0 (the
\* player in whose iteration an exception was raised is left aside).
C15_CalledForEveryDryPlayer ==
    (lastOp.kind = "tick" /\ lastOp.timer >= CheckInterval) =>
        lastOp.called =
            {x \in lastOp.active \ {lastOp.who} : MemLevel(x) <= 0}

\* C17: a tick advances the counter before it processes a player; for a
\* player it decays first, then evaluates the threshold on the decayed
\* level, then clears the flag, then persists; it resets the counter after
\* the last player and only on a check tick.
C17_TickOrder ==
    [][TickStep =>
         LET timer == thirst_damage_timer + 1
             who == lastOp'.who
         IN  /\ \A x \in lastOp'.processed :
                   /\ (x \in lastOp'.called) <=>
                         ( /\ timer >= CheckInterval
                           /\ Get(player_xuid_to_thirst', x, thirst_initial)
                                 <= 0 )
                   /\ x \notin player_moving_flags'
                   /\ x \in DOMAIN player_thirst'
                   /\ player_thirst'[x] =
                         Get(player_xuid_to_thirst', x, thirst_initial)
             /\ who # 0 =>
                   /\ who \notin lastOp'.called
                   /\ (who \in player_moving_flags') =
                         (who \in player_moving_flags)
                   /\ Get(player_thirst', who, 0 - 1) =
                         Get(player_thirst, who, 0 - 1)
             /\ thirst_damage_timer' =
                   IF lastOp'.completed /\ timer >= CheckInterval
                   THEN 0 ELSE timer]_vars

\* a check tick ran to its end and damaged a player
C17_Witness ==
    /\ lastOp.kind = "tick" /\ lastOp.completed
    /\ lastOp.timer = CheckInterval
    /\ lastOp.damaged # {}
    /\ Cardinality(lastOp.processed) = NumPlayers
    /\ thirst_damage_timer = 0

\* C20: a tick lowers the level of a player by decay when its flag is
\* clear and by decay * multiplier when it is set (clamped at 0); neither
\* decay is negative and the moving one is not the smaller.
C20_TickDelta ==
    [][TickStep =>
         LET stationary == thirst_decay_per_second
             moving == FloatMul(thirst_decay_per_second,
                                thirst_moving_multiplier)
         IN  /\ stationary >= 0
             /\ moving >= stationary
             /\ \A x \in lastOp'.processed \cup (lastOp'.active
                                                   \cap {lastOp'.who}) :
                   Get(player_xuid_to_thirst', x, thirst_initial) =
                      LevelAfterDecay(MemLevel(x),
                         IF x \in player_moving_flags THEN moving
                         ELSE stationary)]_vars

\* a tick decayed a moving player by 0.2 and a stationary one by 0.1
C20_Witness ==
    /\ lastOp.kind = "tick"
    /\ thirst_decay_per_second = Dec(1)
    /\ thirst_moving_multiplier = Dec(20)
    /\ \E x, y \in lastOp.processed :
          /\ x \in lastOp.moving /\ y \notin lastOp.moving
          /\ MemLevel(x) = Dec(998) /\ MemLevel(y) = Dec(999)

\* C16: the damage effect reaches a player only if, when
\* _apply_thirst_damage runs, the player is online and its level is <= 0.
C16_DamageOnlyIfEligible ==
    [][\A t \in Timers :
          (arc[t].pc = "damage" /\ arc'[t].hit # 0) =>
              /\ arc'[t].hit \in Online
              /\ MemLevel(arc'[t].hit) <= 0]_vars

\* C18: in fallback mode at most one tick body is executing.
C18_NoOverlap ==
    Cardinality({t \in Timers : arc[t].pc \in BodyPcs}) <= 1

\* the callback of _ArcTimer t raised in its last firing
TimerRaised(t) == IF t \in Timers THEN arc[t].raised ELSE FALSE

\* cancel() of _ArcTimer t has set _stop
TimerStopped(t) == IF t \in Timers THEN arc[t].stop ELSE FALSE

\* C19: after a tick body that failed, another tick fires unless the
\* driver is cancelled: the repeating task of the host scheduler, and the
\* _ArcTimer, which arms its next timer although the callback raised and
\* fires again (as long as the run has ticks left).
C19_SchedulerSurvives ==
    /\ \A k \in 0..(LifeTicks - 1) :
          (lastOp.kind = "tick" /\ ~lastOp.completed /\ ticks = k)
             ~> (ticks > k \/ host_tasks = 0)
    /\ \A t \in LiveTimers :
          TimerRaised(t)
             ~> (~TimerRaised(t) \/ TimerStopped(t) \/ ticks >= TimerTicks)

\* an _ArcTimer whose callback raised is armed again
C19_Witness ==
    \E t \in Timers :
        arc[t].raised /\ arc[t].armed /\ ~arc[t].stop

\* a step that is one call of _apply_thirst_delta
DeltaStep == lastOp'.kind = "delta" /\ events' = events + 1

\* C21: _apply_thirst_delta stores the level before the call (the initial
\* level for a player not in the store) plus the delta, limited to
\* [0, 100], and returns what it stored; the stored level is within
\* [0, 100] after every call, and -1000 followed by +1000 leaves 100.
C21_ApplyDeltaClamps ==
    [][DeltaStep =>
         LET x == lastOp'.who
             sum == FloatAdd(MemLevel(x), lastOp'.delta)
             expected == IF sum < Dec(0) THEN Dec(0)
                         ELSE IF sum > Dec(1000) THEN Dec(1000) ELSE sum
         IN  /\ x \in DOMAIN player_xuid_to_thirst'
             /\ player_xuid_to_thirst'[x] = expected
             /\ player_xuid_to_thirst'[x] >= Dec(0)
             /\ player_xuid_to_thirst'[x] <= Dec(1000)
             /\ lastOp'.completed => lastOp'.ret = expected
             /\ (lastOp'.prev = Dec(0 - 10000) /\ lastOp'.delta = Dec(10000))
                   => player_xuid_to_thirst'[x] = Dec(1000)]_vars

\* -1000 and then +1000 were applied to one player, whose level is 100
C21_Witness ==
    /\ lastOp.kind = "delta" /\ lastOp.completed
    /\ lastOp.prev = Dec(0 - 10000) /\ lastOp.delta = Dec(10000)
    /\ lastOp.ret = Dec(1000)
    /\ MemLevel(lastOp.who) = Dec(1000)

\* a step that is one on_player_join
JoinStep == lastOp'.kind = "join" /\ events' = events + 1

\* C22: a join of a player without a row in player_thirst stores the
\* initial level in memory, adds one row holding it and returns it; a join
\* of a player with a row stores the level of the row, returns it and
\* leaves player_thirst as it is.
C22_AttachLoadsOrCreates ==
    [][JoinStep =>
         LET x == lastOp'.who
         IN  /\ x \in DOMAIN player_xuid_to_thirst'
             /\ IF x \notin DOMAIN player_thirst
                THEN /\ player_xuid_to_thirst'[x] = thirst_initial
                     /\ lastOp'.ret = thirst_initial
                     /\ DOMAIN player_thirst' = DOMAIN player_thirst \cup {x}
                     /\ player_thirst'[x] = thirst_initial
                     /\ \A y \in DOMAIN player_thirst :
                            player_thirst'[y] = player_thirst[y]
                ELSE /\ player_xuid_to_thirst'[x] = player_thirst[x]
                     /\ lastOp'.ret = player_thirst[x]
                     /\ player_thirst' = player_thirst]_vars

\* a player with the row 42.5 joined and has 42.5 in memory, after a
\* player without a row joined and got a row with the initial level
C22_Witness ==
    /\ lastOp.kind = "join" /\ lastOp.ret = Dec(425)
    /\ MemLevel(lastOp.who) = Dec(425)
    /\ player_thirst[lastOp.who] = Dec(425)
    /\ \E y \in Online \ {lastOp.who} :
          /\ y \in DOMAIN player_thirst
          /\ player_thirst[y] = thirst_initial
          /\ MemLevel(y) = thirst_initial

\* a step that is one save: _persist_player_thirst by itself or as the
\* whole of on_player_quit
SaveStep == lastOp'.kind \in {"save", "quit"} /\ events' = events + 1

\* C23: a save adds the row of the player when player_thirst has none and
\* changes that row otherwise, to the in-memory level, and touches no
\* other row; player_thirst holds one row per player at most (xuid is its
\* primary key), and a save that follows a save of the same player leaves
\* the table as it is.
C23_SaveIsUpsert ==
    [][SaveStep =>
         LET x == lastOp'.who
         IN  /\ DOMAIN player_thirst' = DOMAIN player_thirst \cup {x}
             /\ player_thirst'[x] = MemLevel(x)
             /\ \A y \in DOMAIN player_thirst \ {x} :
                    player_thirst'[y] = player_thirst[y]
             /\ UNCHANGED player_xuid_to_thirst
             /\ (lastOp.kind \in {"save", "quit"} /\ lastOp.who = x)
                    => player_thirst' = player_thirst]_vars

\* two saves in a row of a player that had no row: the first inserted,
\* the second updated, and the table holds the one row
C23_Witness ==
    /\ lastOp.kind = "save" /\ lastOp.again
    /\ DOMAIN player_thirst = {lastOp.who}
    /\ player_thirst[lastOp.who] = lastOp.ret
    /\ lastOp.ret = MemLevel(lastOp.who)

\* a step that is one on_actor_death
DeathStep == lastOp'.kind = "death" /\ events' = events + 1

\* C24: after the death of a player its in-memory level is the initial
\* level, whatever it was before, and its row in player_thirst holds the
\* initial level.
C24_DeathResets ==
    [][DeathStep =>
         LET x == lastOp'.who
         IN  /\ x \in DOMAIN player_xuid_to_thirst'
             /\ player_xuid_to_thirst'[x] = thirst_initial
             /\ x \in DOMAIN player_thirst'
             /\ player_thirst'[x] = thirst_initial]_vars

\* a player whose level was not the initial one died and has the initial
\* level in memory and in its row
C24_Witness ==
    /\ lastOp.kind = "death"
    /\ lastOp.before # thirst_initial
    /\ lastOp.who \in DOMAIN player_xuid_to_thirst
    /\ player_xuid_to_thirst[lastOp.who] = thirst_initial
    /\ DurableMatches(lastOp.who)

\* settings.yml holds a number for the setting key: its own, or the
\* default written back
SettingStored(key) ==
    key \in DOMAIN setting_dict /\ CanParse(setting_dict[key])

\* C25: after the settings were loaded, each of the three settings holds
\* the number stored for it, or the default, written back, when none or
\* no number was stored, whatever the other two settings hold (decay and
\* multiplier within their limits).
C25_SettingsIndependent ==
    /\ \A key \in {KeyDecay, KeyMove, KeyInitial} : SettingStored(key)
    /\ thirst_decay_per_second =
          Max(Dec(0), ParseFloat(setting_dict[KeyDecay]))
    /\ thirst_moving_multiplier =
          Max(Dec(10), ParseFloat(setting_dict[KeyMove]))
    /\ thirst_initial = ParseFloat(setting_dict[KeyInitial])

\* C26: the configuration in memory has decay >= 0, multiplier >= 1.0 and
\* an initial level within [0, 100], whatever settings.yml held when it
\* was loaded.
C26_ConfigInRange ==
    /\ thirst_decay_per_second >= 0
    /\ thirst_moving_multiplier >= Dec(10)
    /\ thirst_initial >= Dec(0)
    /\ thirst_initial <= Dec(1000)

\* C27: a write that fails for a player during a tick does not end the
\* tick: the player keeps the level the tick computed and its row stays as
\* it was, the iteration of that player and of the others go on to their
\* end, the counter is reset on a check tick (as long as no send_tip
\* raises), and every write that goes through stores the in-memory level.
C27_WriteFailureContained ==
    [][TickStep =>
         LET timer == thirst_damage_timer + 1
         IN  /\ \A x \in lastOp'.failed :
                   /\ x \in lastOp'.processed
                   /\ Get(player_xuid_to_thirst', x, thirst_initial) =
                         LevelAfterDecay(MemLevel(x),
                            TickDecay(thirst_decay_per_second,
                                      x \in player_moving_flags,
                                      thirst_moving_multiplier))
                   /\ Get(player_thirst', x, 0 - 1) =
                         Get(player_thirst, x, 0 - 1)
             /\ lastOp'.who \notin lastOp'.failed
             /\ lastOp'.who = 0 =>
                   /\ lastOp'.processed = lastOp'.active
                   /\ thirst_damage_timer' =
                         IF timer >= CheckInterval THEN 0 ELSE timer
             /\ \A x \in lastOp'.processed \ lastOp'.failed :
                   /\ x \in DOMAIN player_thirst'
                   /\ player_thirst'[x] =
                         Get(player_xuid_to_thirst', x, thirst_initial)]_vars

\* a check tick in which the write failed for one player: all players
\* were processed, the counter is reset, the row of that player lags and
\* the row of another holds its in-memory level
C27_Witness ==
    /\ lastOp.kind = "tick" /\ lastOp.completed
    /\ lastOp.timer = CheckInterval /\ thirst_damage_timer = 0
    /\ lastOp.failed # {}
    /\ Cardinality(lastOp.processed) >= 2
    /\ lastOp.processed = lastOp.active
    /\ \E x \in lastOp.failed : ~DurableMatches(x)
    /\ \E x \in lastOp.processed \ lastOp.failed : DurableMatches(x)

\* C28: a join ends without an exception reaching the host, and leaves a
\* level for the player in the store, also when the database fails.
C28_AttachContainsFailure ==
    lastOp.kind = "join" =>
        /\ lastOp.completed
        /\ lastOp.who \in DOMAIN player_xuid_to_thirst

\* C29: when a consumption changed the level of a player between the read
\* and the write of the tick's _apply_thirst_delta for that player, the
\* level after the write is the one that the two calls give one after the
\* other, in one order or the other.
C29_NoLostUpdate ==
    [][\A t \in Timers :
          ( /\ arc[t].pc = "write" /\ arc'[t].pc # "write"
            /\ lastOp.kind = "consume" /\ lastOp.delta # 0
            /\ lastOp.who = Head(arc[t].ps)
            /\ lastOp.before = arc[t].cur )
          => LET x == Head(arc[t].ps)
                 decay == arc[t].decay
                 tickFirst ==
                    ClampThirst(FloatAdd(
                       ClampThirst(FloatAdd(arc[t].cur, 0 - decay)),
                       lastOp.delta))
                 tickSecond ==
                    ClampThirst(FloatAdd(
                       ClampThirst(FloatAdd(arc[t].cur, lastOp.delta)),
                       0 - decay))
             IN  Get(player_xuid_to_thirst', x, thirst_initial)
                    \in {tickFirst, tickSecond}]_vars

\* C30: with initial level 100, decay 1.0 and multiplier 2.0 a player who
\* stands still for StationaryTicks ticks has the level 100 less 1.0 per
\* tick (50 after 50 ticks); after MovingTicks more ticks with movement in
\* every window it has that level less 2.0 per tick (0 after 25 ticks);
\* and in the 10 ticks that follow the damage is applied exactly once.
C30_EndToEnd ==
    \A x \in Online :
        /\ ticks = StationaryTicks =>
               MemLevel(x) = Dec(Max(0, 1000 - 10 * StationaryTicks))
        /\ ticks = StationaryTicks + MovingTicks =>
               MemLevel(x) = Dec(Max(0, Max(0, 1000 - 10 * StationaryTicks)
                                           - 20 * MovingTicks))
        /\ ticks = ScenarioTicks =>
               /\ MemLevel(x) = 0
               /\ since_damage[x] < CheckInterval
               /\ damage_gap[x] >= CheckInterval

\* the end of the run: the level is 0 and the player was damaged in one
\* of the last 10 ticks
C30_Witness ==
    /\ ticks = ScenarioTicks
    /\ \E x \in Online :
          /\ MemLevel(x) = 0 /\ DurableMatches(x)
          /\ since_damage[x] < CheckInterval
          /\ damage_gap[x] = CheckInterval

\* C31: with a decay of 0 a tick leaves the level of every player in
\* player_xuid_to_thirst as it was, with the moving flag set or clear,
\* and still advances the counter, evaluates the threshold on a check
\* tick, clears the moving flags and saves every online player.
C31_ZeroDecayFreezes ==
    [][(TickStep /\ thirst_decay_per_second = 0) =>
         LET timer == thirst_damage_timer + 1
         IN  /\ player_xuid_to_thirst' = player_xuid_to_thirst
             /\ lastOp'.completed /\ lastOp'.processed = Online
             /\ lastOp'.timer = timer
             /\ thirst_damage_timer' =
                   IF timer >= CheckInterval THEN 0 ELSE timer
             /\ \A x \in Online :
                   /\ (x \in lastOp'.called) <=>
                         (timer >= CheckInterval /\ MemLevel(x) <= 0)
                   /\ x \notin player_moving_flags'
                   /\ db_open => /\ x \in DOMAIN player_thirst'
                                 /\ player_thirst'[x] = MemLevel(x)]_vars

\* a check tick with decay 0 found one player moving and one standing,
\* damaged the one at 0 and left the other at 42.5
C31_Witness ==
    /\ lastOp.kind = "tick" /\ thirst_decay_per_second = 0
    /\ lastOp.timer = CheckInterval /\ thirst_damage_timer = 0
    /\ \E x, y \in lastOp.processed :
          /\ x \in lastOp.flagged /\ y \notin lastOp.flagged
          /\ MemLevel(x) = Dec(425) /\ DurableMatches(x)
          /\ MemLevel(y) = 0 /\ y \in lastOp.damaged
    /\ player_moving_flags = {}

\* a step that is one call of GetSetting
GetStep == lastOp'.kind = "get" /\ events' = events + 1

\* GetSetting of a key the dictionary does not hold returns None, adds the
\* key with "" to the dictionary and as the last line of the file
C32_GetCreates ==
    [][(GetStep /\ lastOp'.key \notin DOMAIN setting_dict) =>
         /\ lastOp'.value = NoneVal
         /\ setting_dict' = Put(setting_dict, lastOp'.key, "")
         /\ setting_file' = Append(setting_file, <<lastOp'.key, "">>)]_vars

\* GetSetting(k) right after SetSetting(k, v) returns v
C32_SetThenGet ==
    [][(/\ GetStep /\ lastOp.kind = "set" /\ lastOp'.key = lastOp.key
        /\ lastOp.value # "" /\ Strip(lastOp.value) = lastOp.value) =>
         lastOp'.value = lastOp.value]_vars

\* the file read again gives the dictionary in memory
C32_FileMatches == LoadSettingFile(setting_file) = setting_dict

\* C32: GetSetting of a missing key returns None and adds the key, empty,
\* at the end of the file and nothing else; GetSetting(k) after
\* SetSetting(k, v) returns v for a non-empty v without surrounding
\* whitespace; after any calls of GetSetting and SetSetting the file read
\* again gives exactly the dictionary in memory.
C32_StoreRoundTrips ==
    C32_GetCreates /\ C32_SetThenGet /\ []C32_FileMatches

\* a step that is one consumption event
ConsumeStep == lastOp'.kind = "consume" /\ events' = events + 1

\* C33: a consumption applies to the level of the player exactly when
\* thirst_items holds a row for the lower-cased item id: the level in
\* player_xuid_to_thirst becomes clamp(old + thirst_delta, 0, 100) and the
\* row of player_thirst holds that level when the handler returns; for an
\* item without a row the level, the moving flag and the row stay as they
\* were.
C33_ConsumeAppliesDelta ==
    [][ConsumeStep =>
         LET x == lastOp'.who
             item_id == lastOp'.key
         IN  IF item_id \in DOMAIN thirst_items
             THEN /\ Get(player_xuid_to_thirst', x, thirst_initial) =
                        ClampThirst(FloatAdd(MemLevel(x),
                                             thirst_items[item_id]))
                  /\ x \in DOMAIN player_thirst'
                  /\ player_thirst'[x] =
                        ClampThirst(FloatAdd(MemLevel(x),
                                             thirst_items[item_id]))
             ELSE /\ player_xuid_to_thirst' = player_xuid_to_thirst
                  /\ player_moving_flags' = player_moving_flags
                  /\ player_thirst' = player_thirst]_vars

\* a step that is one submission of the configuration form
SubmitStep == lastOp'.kind = "submit" /\ events' = events + 1

\* the three inputs parse, decay >= 0, multiplier >= 1.0 and the initial
\* level lies in [0, 100]
InputsValid(inp) ==
    /\ \A i \in 1..3 : inp[i] \in DOMAIN FloatTable
    /\ FloatTable[inp[1]] >= 0
    /\ FloatTable[inp[2]] >= 10
    /\ FloatTable[inp[3]] >= 0 /\ FloatTable[inp[3]] <= 1000

\* C34: a submission with an invalid input (not a number, decay < 0,
\* multiplier < 1.0, initial level outside [0, 100]) writes no setting
\* to the store or its file, leaves the configuration in memory as it was
\* and does not restart the tick task; a valid one writes the three
\* settings and reloads them.
C34_InvalidFormChangesNothing ==
    [][SubmitStep =>
         LET inp == lastOp'.value
         IN  IF InputsValid(inp)
             THEN /\ lastOp'.completed
                  /\ setting_dict' =
                        Put(Put(Put(setting_dict,
                                    KeyDecay,
                                    StrOfFloat(Dec(FloatTable[inp[1]]))),
                                KeyMove, StrOfFloat(Dec(FloatTable[inp[2]]))),
                            KeyInitial, StrOfFloat(Dec(FloatTable[inp[3]])))
                  /\ LoadSettingFile(setting_file') = setting_dict'
                  /\ thirst_decay_per_second' = Dec(FloatTable[inp[1]])
                  /\ thirst_moving_multiplier' = Dec(FloatTable[inp[2]])
                  /\ thirst_initial' = Dec(FloatTable[inp[3]])
                  /\ thirst_task' = HostTask /\ host_tasks' = 1
             ELSE /\ ~lastOp'.completed
                  /\ UNCHANGED <<cfgVars, taskVars, memVars, dbVars>>]_vars

\* an invalid submission followed a valid one, with a player online: the
\* multiplier 1.0 of the valid one is still stored and in force
C34_Witness ==
    /\ lastOp.kind = "submit" /\ ~lastOp.completed
    /\ lastOp.value = <<"50.0", "abc", "100.0">>
    /\ setting_dict[KeyMove] = "1.0" /\ thirst_moving_multiplier = Dec(10)
    /\ thirst_task = HostTask /\ host_tasks = 1
    /\ Online # {}

\* a step that is one run of _reload_survival_settings: the reload
\* command or a valid submission of the form
ReloadStep ==
    /\ events' = events + 1
    /\ \/ lastOp'.kind = "reload"
       \/ lastOp'.kind = "submit" /\ lastOp'.completed

\* C35: a reload leaves the level of every player, every moving flag,
\* every row of player_thirst and thirst_damage_timer as they were, so
\* the check tick comes after as many ticks as before; it assigns the
\* three configuration values and the task handle.
C35_ReloadFrame ==
    [][ReloadStep =>
         /\ player_xuid_to_thirst' = player_xuid_to_thirst
         /\ player_moving_flags' = player_moving_flags
         /\ player_thirst' = player_thirst
         /\ thirst_damage_timer' = thirst_damage_timer
         /\ since_damage' = since_damage
         /\ thirst_task' = HostTask /\ host_tasks' = 1]_vars

\* a valid submission changed the decay to 0 while a player below 100.0
\* had its moving flag set and the counter stood above 0
C35_Witness ==
    /\ lastOp.kind = "submit" /\ lastOp.completed
    /\ lastOp.value = <<"0", "2.0", "100.0">>
    /\ thirst_decay_per_second = 0
    /\ thirst_damage_timer > 0
    /\ \E x \in Online :
          /\ x \in player_moving_flags
          /\ MemLevel(x) < MaxThirst /\ DurableMatches(x)

\* on_disable has returned
Disabled == ~enabled /\ main_pc = "idle"

\* once on_disable has returned, thirst_task is None
C36_HandleEmpty == Disabled => thirst_task = NoTask

\* once on_disable has returned, no tick body starts: no timer thread
\* enters tick() (line 903)
C36_NoTickStarts ==
    [][Disabled =>
         \A t \in Timers :
             ~(arc[t].pc = "run" /\ arc'[t].pc = "list")]_vars

\* nothing is written to player_thirst once the connection is closed
C36_NoWriteAfterClose == [][~db_open => player_thirst' = player_thirst]_vars

\* C36: after on_disable has returned thirst_task is None and no tick
\* body starts or writes to player_thirst, and no tick writes to it after
\* the connection was closed, however on_disable interleaves with a
\* firing or a reload.
C36_QuietAfterDisable ==
    []C36_HandleEmpty /\ C36_NoTickStarts /\ C36_NoWriteAfterClose
====
